---- MODULE Spec2Model ----
(***************************************************************************)
(* Verification model of the reverse-ETL application: the connection gate  *)
(* (SecurityService), the pooled-connection registry (ConnectionService),  *)
(* the requests that borrow a pool from it (ConnectionController), the     *)
(* mapping service (validateMapping, applyMapping, the preview), the       *)
(* identifier sanitizer (TableService), the rate limiters, the shutdown,   *)
(* and, of the front end, getValidationError and the wizard.               *)
(*                                                                         *)
(* Strings that the code inspects character by character (host names,      *)
(* paths, identifiers) are sequences of one-character strings.  Time is    *)
(* Date.now() in milliseconds.                                             *)
(***************************************************************************)
EXTENDS Integers, Sequences, FiniteSets, TLC

\* ------------------------------------------------------------------------
\* Bounds of the model (not program constants)
\* ------------------------------------------------------------------------
\* number of createConnection invocations
MaxCreates == 2
\* number of controller requests (listTables / listColumns / preview)
MaxRequests == 1
\* number of closeAll invocations (gracefulShutdown can be triggered again)
MaxClosers == 2
\* number of milliseconds the clock advances
MaxTicks == 1

\* ------------------------------------------------------------------------
\* Program constants
\* ------------------------------------------------------------------------
TTL_MS == 30 * 60 * 1000
MAX_CONNECTIONS == 100
MAX_PORT == 65535

\* ------------------------------------------------------------------------
\* Character strings
\* ------------------------------------------------------------------------
UpperChars == <<"A","B","C","D","E","F","G","H","I","J","K","L","M",
                "N","O","P","Q","R","S","T","U","V","W","X","Y","Z">>
LowerChars == <<"a","b","c","d","e","f","g","h","i","j","k","l","m",
                "n","o","p","q","r","s","t","u","v","w","x","y","z">>
Digits == {"0","1","2","3","4","5","6","7","8","9"}
HexLower == Digits \cup {"a","b","c","d","e","f"}

\* String.prototype.toLowerCase on one character
LowerChar(c) ==
  IF \E i \in 1..26 : UpperChars[i] = c
    THEN LowerChars[CHOOSE i \in 1..26 : UpperChars[i] = c]
    ELSE c

\* a comparison that keeps the case of the host name
keepCase(s) == s

\* String.prototype.toLowerCase
toLowerCase(s) == [i \in 1..Len(s) |-> LowerChar(s[i])]

\* a regular expression anchored at ^ that is a literal text
StartsWith(s, p) ==
  /\ Len(s) >= Len(p)
  /\ \A i \in 1..Len(p) : s[i] = p[i]

\* ------------------------------------------------------------------------
\* SecurityService
\* ------------------------------------------------------------------------
BLOCKED_HOSTS ==
  { <<"l","o","c","a","l","h","o","s","t">>,
    <<"1","2","7",".","0",".","0",".","1">>,
    <<":",":","1">>,
    <<"0",".","0",".","0",".","0">>,
    <<"1","6","9",".","2","5","4",".","1","6","9",".","2","5","4">>,
    <<"m","e","t","a","d","a","t","a",".","g","o","o","g","l","e",".",
      "i","n","t","e","r","n","a","l">> }

\* /^10\./
Range10(h) == StartsWith(h, <<"1","0",".">>)

\* /^172\.(1[6-9]|2[0-9]|3[0-1])\./
Range172(h) ==
  /\ StartsWith(h, <<"1","7","2",".">>)
  /\ Len(h) >= 7
  /\ \/ h[5] = "1" /\ h[6] \in {"6","7","8","9"}
     \/ h[5] = "2" /\ h[6] \in Digits
     \/ h[5] = "3" /\ h[6] \in {"0","1"}
  /\ h[7] = "."

\* /^192\.168\./
Range192(h) == StartsWith(h, <<"1","9","2",".","1","6","8",".">>)

\* /^127\./
Range127(h) == StartsWith(h, <<"1","2","7",".">>)

\* /^169\.254\./
Range169(h) == StartsWith(h, <<"1","6","9",".","2","5","4",".">>)

\* /^(fc|fd)[0-9a-f]{2}:/i
RangeUniqueLocal(h) ==
  /\ Len(h) >= 5
  /\ LowerChar(h[1]) = "f"
  /\ LowerChar(h[2]) \in {"c","d"}
  /\ LowerChar(h[3]) \in HexLower
  /\ LowerChar(h[4]) \in HexLower
  /\ h[5] = ":"

\* /^fe80:/i
RangeLinkLocal(h) == StartsWith(toLowerCase(h), <<"f","e","8","0",":">>)

\* some pattern of BLOCKED_IP_RANGES matches the host name
BLOCKED_IP_RANGES(h) ==
  \/ Range10(h)
  \/ Range172(h)
  \/ Range192(h)
  \/ Range127(h)
  \/ Range169(h)
  \/ RangeUniqueLocal(h)
  \/ RangeLinkLocal(h)

\* A connection descriptor, as `new URL(connectionString)` sees it:
\*   wellFormed  the text has the shape scheme://host[:port]/db
\*   protocol    URL.protocol
\*   hostname    URL.hostname (an opaque host: its case is kept)
\*   port        the port written in the text, NoPort when there is none
NoPort == -1

\* new URL(connectionString): throws on text that is not a URL and on a
\* port above 65535; otherwise the port is kept as written
ParseURL(d) ==
  IF ~d.wellFormed \/ d.port > MAX_PORT
    THEN [ok |-> FALSE]
    ELSE [ok |-> TRUE, protocol |-> d.protocol, hostname |-> d.hostname,
          port |-> d.port]

\* the port check of validateConnectionString: TRUE when the check throws
PortRejected(port) ==
  IF port # NoPort THEN port < 1 \/ port > MAX_PORT ELSE FALSE

\* validateConnectionString: "ok" or the message of the ValidationError
validateConnectionString(d) ==
  LET u == ParseURL(d) IN
  IF ~u.ok THEN "Invalid connection string format"
  ELSE IF u.protocol # "postgresql:" /\ u.protocol # "postgres:"
    THEN "Only PostgreSQL connections are allowed"
  ELSE LET hostname == toLowerCase(u.hostname) IN
  IF hostname \in BLOCKED_HOSTS
    THEN "Connection to host is not allowed"
  ELSE IF BLOCKED_IP_RANGES(hostname)
    THEN "Connection to private IP range is not allowed"
  ELSE IF PortRejected(u.port) THEN "Invalid port number"
  ELSE "ok"

\* shouldBypassSSRFCheck
shouldBypassSSRFCheck(e) ==
  e.NODE_ENV = "development" /\ e.ALLOW_LOCALHOST = "true"

\* ------------------------------------------------------------------------
\* Inputs
\* ------------------------------------------------------------------------
HostRemote == <<"d","b",".","e","x","a","m","p","l","e",".","c","o","m">>
HostLoopback == <<"1","2","7",".","0",".","0",".","1">>
HostLocalMixed == <<"L","o","c","a","l","H","o","s","t">>
HostPrivate10 == <<"1","0",".","0",".","0",".","5">>
HostPrivate172 == <<"1","7","2",".","1","6",".","0",".","1">>
HostPublic172 == <<"1","7","2",".","3","2",".","0",".","1">>

Desc(w, pr, h, po) ==
  [wellFormed |-> w, protocol |-> pr, hostname |-> h, port |-> po]

\* the connection strings handed to createConnection (never empty: the
\* request schema requires at least one character)
Descriptors ==
  << Desc(TRUE, "postgresql:", HostRemote, 5432),
     Desc(TRUE, "postgres:", HostPublic172, NoPort),
     Desc(TRUE, "postgres:", HostLoopback, 5432),
     Desc(TRUE, "postgresql:", HostLocalMixed, NoPort),
     Desc(TRUE, "postgresql:", HostPrivate10, 5432),
     Desc(TRUE, "postgresql:", HostPrivate172, MAX_PORT),
     Desc(TRUE, "mysql:", HostRemote, 3306),
     Desc(TRUE, "postgresql:", HostRemote, 0),
     Desc(TRUE, "postgresql:", HostRemote, MAX_PORT + 1),
     Desc(FALSE, "", <<>>, NoPort) >>

DescIds == 1..Len(Descriptors)

Creators == 1..MaxCreates
Requesters == 1..MaxRequests
Closers == 1..MaxClosers

\* The runs start one TTL and a millisecond after the service was
\* constructed at time 0, before the sweep timer has fired again, with n
\* sessions registered by n earlier, sequential createConnection calls:
\* the first at time 0 (now older than the TTL) and the others at time 1
\* (now as old as the TTL).  Session i owns pool i.
StartTime == TTL_MS + 1
ClockValues == StartTime..(StartTime + MaxTicks)
PreloadSizes == {MAX_CONNECTIONS - 1, MAX_CONNECTIONS}

Preloaded(n) ==
  [id \in 1..n |-> [pool |-> id, createdAt |-> IF id = 1 THEN 0 ELSE 1]]

\* the requests of the controller
RequestKinds == {"listTables", "listColumns", "preview"}

\* the values of process.env
Envs ==
  [NODE_ENV : {"development", "production"},
   ALLOW_LOCALHOST : {"true", "false"}]

\* the descriptors and the environment of the runs that interleave the
\* operations of the registry: an admitted and a blocked descriptor
RegistryDescIds == {1, 3}
RegistryEnv == [NODE_ENV |-> "production", ALLOW_LOCALHOST |-> "false"]

\* ------------------------------------------------------------------------
\* State
\* ------------------------------------------------------------------------
VARIABLES
  env,          \* process.env: NODE_ENV and ALLOW_LOCALHOST
  now,          \* Date.now()
  connections,  \* ConnectionService.connections: id -> [pool, createdAt]
  nextId,       \* the next identifier crypto.randomUUID() returns
  nextPool,     \* the next Pool object `new Pool` allocates
  ended,        \* pools on which end() has been called
  endedAgain,   \* pools on which end() has been called more than once
  create,       \* the createConnection invocations
  request,      \* the controller requests
  closer,       \* the closeAll invocations
  validation,   \* the validateMapping call: its argument and its errors
  fold,         \* the applyMapping call: its arguments, the entries folded
                \* so far and the document
  preview       \* the preview request or fetchAndTransformData call: its
                \* arguments, the steps passed, the queries issued on the
                \* pool and what is returned
VARIABLES
  sanitizing    \* the sanitizeIdentifier call: its argument and its result
VARIABLES
  stores,       \* RateLimiter.store of generalRateLimiter and of
                \* connectionRateLimiter: identifier -> [count, resetTime]
  responses     \* the requests received so far, in order: who sent each,
                \* on which route, when, and how the middleware answered
VARIABLES
  editor,       \* the MappingEditor: the mapping it renders and the result
                \* of getValidationError for each of its rows
  wizard        \* the state of the useWizard hook: step, completedSteps,
                \* connectionId, selectedTable, columns and mapping

\* the state of the mapping service
mapVars == <<validation, fold, preview>>

\* the state of the connection service and of its callers
registryVars ==
  <<env, now, connections, nextId, nextPool, ended, endedAgain,
    create, request, closer>>

\* the state of the calls and components outside the two services
\* the state of the rate limiters
limiterVars == <<stores, responses>>

\* the state of the front end
clientVars == <<editor, wizard>>

outerVars == <<sanitizing, limiterVars, clientVars>>

vars ==
  <<env, now, connections, nextId, nextPool, ended, endedAgain,
    create, request, closer, mapVars, outerVars>>

NoPool == 0

IdleCreate ==
  [pc |-> "idle", desc |-> 0, pool |-> NoPool, client |-> "none",
   result |-> "none"]

IdleRequest ==
  [pc |-> "idle", missing |-> 0, pool |-> NoPool, left |-> 0,
   result |-> "none", gotEnded |-> FALSE, afterEnd |-> FALSE]

IdleCloser ==
  [pc |-> "idle", pools |-> {}, rejected |-> {}, logged |-> FALSE]

IdleValidation == [pc |-> "idle", mapping |-> <<>>, errors |-> <<>>]

IdleFold ==
  [pc |-> "idle", mapping |-> <<>>, row |-> <<>>, i |-> 0, doc |-> <<>>,
   error |-> "none"]

IdleSanitize == [pc |-> "idle", identifier |-> <<>>, error |-> "none",
                 quoted |-> <<>>]

IdleEditor == [pc |-> "idle", mapping |-> <<>>, errors |-> <<>>]

\* useWizard: the initial values of its useState calls
IdleWizard ==
  [step |-> 0, completedSteps |-> {}, connectionId |-> "null",
   selectedTable |-> "null", columns |-> <<>>, mapping |-> <<>>]

IdlePreview ==
  [pc |-> "idle", via |-> "none", table |-> <<>>, limit |-> 0,
   mapping |-> <<>>, steps |-> <<>>, queries |-> <<>>, fetched |-> 0,
   docs |-> <<>>, result |-> "none", details |-> <<>>]

\* the services after n sequential createConnection calls under
\* environment e
StartServices(e, n) ==
  /\ env = e
  /\ now = StartTime
  /\ connections = Preloaded(n)
  /\ nextId = n + 1
  /\ nextPool = n + 1
  /\ ended = {}
  /\ endedAgain = {}
  /\ create = [c \in Creators |-> IdleCreate]
  /\ request = [r \in Requesters |-> IdleRequest]
  /\ closer = [k \in Closers |-> IdleCloser]
  /\ validation = IdleValidation
  /\ fold = IdleFold
  /\ preview = IdlePreview
  /\ sanitizing = IdleSanitize

\* the front end just mounted
StartClient ==
  /\ editor = IdleEditor
  /\ wizard = IdleWizard

\* the state after n sequential createConnection calls under environment
\* e, no request having passed the rate limiters
Start(e, n) ==
  /\ StartServices(e, n)
  /\ StartClient
  /\ stores = [l \in {"general", "connection"} |-> <<>>]
  /\ responses = <<>>

Init == \E n \in PreloadSizes : Start(RegistryEnv, n)

\* Map.size
size(conns) == Cardinality(DOMAIN conns)

\* Map.set
MapSet(conns, id, v) ==
  [i \in DOMAIN conns \cup {id} |-> IF i = id THEN v ELSE conns[i]]

\* Map.delete
MapDelete(conns, id) ==
  [i \in DOMAIN conns \ {id} |-> conns[i]]

\* pool.end(): the pool is ending from now on; a second call on the same
\* pool returns a rejected promise
PoolEnd(p, e, ea) ==
  [ended |-> e \cup {p},
   endedAgain |-> IF p \in e THEN ea \cup {p} ELSE ea,
   rejects |-> p \in e]

\* ------------------------------------------------------------------------
\* ConnectionService.createConnection
\* ------------------------------------------------------------------------
\* a capacity check that lets one session too many in
AboveCapacity(conns) == size(conns) > MAX_CONNECTIONS

\* the capacity check
AtCapacity(conns) == size(conns) >= MAX_CONNECTIONS

\* the gate as createConnection runs it: "ok" or the message it throws
Gate(e, d) ==
  IF ~shouldBypassSSRFCheck(e) THEN validateConnectionString(d) ELSE "ok"

\* the call up to its first await: gate, capacity check, new Pool,
\* pool.connect()
createConnection(c, i) ==
  /\ create[c].pc = "idle"
  /\ LET gate == Gate(env, Descriptors[i]) IN
     IF gate # "ok"
       THEN /\ create' = [create EXCEPT ![c] =
                 [@ EXCEPT !.pc = "done", !.desc = i, !.result = gate]]
            /\ UNCHANGED nextPool
     ELSE IF AtCapacity(connections)
       THEN /\ create' = [create EXCEPT ![c] =
                 [@ EXCEPT !.pc = "done", !.desc = i,
                           !.result = "Maximum number of concurrent connections reached"]]
            /\ UNCHANGED nextPool
     ELSE /\ create' = [create EXCEPT ![c] =
                 [@ EXCEPT !.pc = "connecting", !.desc = i, !.pool = nextPool]]
          /\ nextPool' = nextPool + 1
  /\ UNCHANGED <<mapVars, outerVars, env, now, connections, nextId, ended, endedAgain,
                 request, closer>>

\* a catch block that throws without ending the pool
CatchWithoutEnd(c, cl) ==
  /\ UNCHANGED <<ended, endedAgain>>
  /\ create' = [create EXCEPT ![c] =
       [@ EXCEPT !.pc = "ending", !.client = cl, !.result = "ConnectionError"]]

\* the catch block up to `await pool.end()`
CatchEnd(c, cl) ==
  LET e == PoolEnd(create[c].pool, ended, endedAgain) IN
  /\ ended' = e.ended
  /\ endedAgain' = e.endedAgain
  /\ create' = [create EXCEPT ![c] =
       [@ EXCEPT !.pc = "ending", !.client = cl,
                 !.result = IF e.rejects THEN "Error" ELSE "ConnectionError"]]

\* pool.connect() settles: the probe query is sent on the client, or the
\* catch block ends the pool
ConnectSettles(c, ok) ==
  /\ create[c].pc = "connecting"
  /\ IF ok
       THEN /\ create' = [create EXCEPT ![c] =
                 [@ EXCEPT !.pc = "probing", !.client = "held"]]
            /\ UNCHANGED <<ended, endedAgain>>
       ELSE CatchEnd(c, "none")
  /\ UNCHANGED <<mapVars, outerVars, env, now, connections, nextId, nextPool, request, closer>>

\* a finally block that leaves the client checked out
keepClient(client) == client

\* client.release() of the finally block
release(client) == "released"

\* client.query("SELECT 1") settles: the client is released; the session
\* is registered, or the catch block ends the pool
ProbeSettles(c, ok) ==
  /\ create[c].pc = "probing"
  /\ IF ok
       THEN /\ connections' = MapSet(connections, nextId,
                 [pool |-> create[c].pool, createdAt |-> now])
            /\ nextId' = nextId + 1
            /\ create' = [create EXCEPT ![c] =
                 [@ EXCEPT !.pc = "done", !.client = release(@),
                           !.result = "ok"]]
            /\ UNCHANGED <<ended, endedAgain>>
       ELSE /\ CatchEnd(c, release(create[c].client))
            /\ UNCHANGED <<connections, nextId>>
  /\ UNCHANGED <<mapVars, outerVars, env, now, nextPool, request, closer>>

\* `await pool.end()` of the catch block settles: the error is thrown
EndSettles(c) ==
  /\ create[c].pc = "ending"
  /\ create' = [create EXCEPT ![c].pc = "done"]
  /\ UNCHANGED <<mapVars, outerVars, env, now, connections, nextId, nextPool, ended,
                 endedAgain, request, closer>>

\* ------------------------------------------------------------------------
\* ConnectionService.getPool and the controller requests
\* ------------------------------------------------------------------------
\* getPool: the pool of the session, NoPool when it throws
\* "Connection not found or expired"
getPool(conns, id) ==
  IF id \in DOMAIN conns THEN conns[id].pool ELSE NoPool

\* a getPool that tells a session that is gone from an identifier that was
\* never issued
getPoolExpired(connectionId) ==
  IF connectionId < nextId THEN "Connection expired"
  ELSE "Connection not found"

\* the message of the ConnectionError getPool throws
getPoolError(connectionId) == "Connection not found or expired"

\* a getPool that restarts the age of the session it returns
getPoolTouch(conns, id, t) ==
  IF id \in DOMAIN conns THEN [conns EXCEPT ![id].createdAt = t] ELSE conns

\* the registry after a getPool call at time t
getPoolRegistry(conns, id, t) == conns

\* the number of queries a request issues one after the other
Queries(kind) ==
  CASE kind = "listTables" -> 1
    [] kind = "listColumns" -> 2
    [] kind = "preview" -> 3

\* the identifiers the requests try: the oldest session, the one registered
\* last, and one never issued
RequestIds == {1, nextId - 1, nextId}

\* pool.query on the pool the request holds: a pool that is ending rejects
\* the query, otherwise the query is in flight
IssueQuery(rq, leftAfter) ==
  IF rq.pool \in ended
    THEN [rq EXCEPT !.pc = "done", !.pool = NoPool, !.left = 0,
                    !.afterEnd = TRUE, !.result = "Cannot use a pool after calling end on the pool"]
    ELSE [rq EXCEPT !.pc = "awaiting", !.left = leftAfter]

\* a controller method up to its first await: getPool, then the first query
Request(r, kind, id) ==
  /\ request[r].pc = "idle"
  /\ LET pool == getPool(connections, id) IN
     /\ connections' = getPoolRegistry(connections, id, now)
     /\ IF pool = NoPool
          THEN request' = [request EXCEPT ![r] =
                 [@ EXCEPT !.pc = "done", !.missing = id,
                           !.result = getPoolError(id)]]
          ELSE request' = [request EXCEPT ![r] =
                 IssueQuery([@ EXCEPT !.pool = pool,
                                      !.gotEnded = pool \in ended],
                            Queries(kind) - 1)]
  /\ UNCHANGED <<mapVars, outerVars, env, now, nextId, nextPool, ended, endedAgain,
                 create, closer>>

\* the query in flight settles: the request fails, issues its next query,
\* or answers
QuerySettles(r, ok) ==
  /\ request[r].pc = "awaiting"
  /\ request' = [request EXCEPT ![r] =
       IF ~ok THEN [@ EXCEPT !.pc = "done", !.pool = NoPool, !.left = 0,
                             !.result = "query failed"]
       ELSE IF @.left > 0 THEN IssueQuery(@, @.left - 1)
       ELSE [@ EXCEPT !.pc = "done", !.pool = NoPool, !.result = "ok"]]
  /\ UNCHANGED <<mapVars, outerVars, env, now, connections, nextId, nextPool, ended,
                 endedAgain, create, closer>>

\* ------------------------------------------------------------------------
\* ConnectionService.cleanupStaleConnections
\* ------------------------------------------------------------------------
\* a test that also reclaims a session exactly as old as the TTL
StaleAtTTL(conn, t) == t - conn.createdAt >= TTL_MS

\* the test of the sweep
Stale(conn, t) == t - conn.createdAt > TTL_MS

\* the keys the loop deletes: the loop visits every entry once (deleting
\* the visited entry does not disturb a Map iteration) and tests each entry
\* on its own
StaleIds(conns, t) == {id \in DOMAIN conns : Stale(conns[id], t)}

\* end() called once on each pool of P; every entry owns its own pool
PoolEndAll(P, e, ea) ==
  [ended |-> e \cup P,
   endedAgain |-> ea \cup (P \cap e),
   rejected |-> P \cap e]

\* a loop that ends the pools of the stale entries and keeps the entries
cleanupWithoutDelete(conns, e, ea, t) ==
  LET stale == StaleIds(conns, t)
      pe == PoolEndAll({conns[id].pool : id \in stale}, e, ea) IN
  [connections |-> conns, ended |-> pe.ended, endedAgain |-> pe.endedAgain]

\* the loop over the entries: a stale entry has its pool ended and is
\* deleted
cleanupLoop(conns, e, ea, t) ==
  LET stale == StaleIds(conns, t)
      pe == PoolEndAll({conns[id].pool : id \in stale}, e, ea) IN
  [connections |-> [id \in DOMAIN conns \ stale |-> conns[id]],
   ended |-> pe.ended, endedAgain |-> pe.endedAgain]

\* the timer callback
cleanupStaleConnections ==
  /\ LET res == cleanupLoop(connections, ended, endedAgain, now) IN
     /\ connections' = res.connections
     /\ ended' = res.ended
     /\ endedAgain' = res.endedAgain
  /\ UNCHANGED <<mapVars, outerVars, env, now, nextId, nextPool, create, request, closer>>

\* ------------------------------------------------------------------------
\* ConnectionService.closeAll
\* ------------------------------------------------------------------------
\* the loop that calls end() on every pool of the registry; pools are the
\* pools visited, rejected those whose end() returned a rejected promise
closeLoop(conns, e, ea) ==
  LET pools == {conns[id].pool : id \in DOMAIN conns}
      pe == PoolEndAll(pools, e, ea) IN
  [ended |-> pe.ended, endedAgain |-> pe.endedAgain, pools |-> pools,
   rejected |-> pe.rejected]

\* a closeAll that awaits the bare close promises with Promise.all
closeAllUncaught(rejected) == IF rejected = {} THEN "resolved" ELSE "rejected"

\* what closeAll's promise does once every close promise has settled; each
\* close promise carries its own catch handler
closeAllOutcome(rejected) == "resolved"

\* the call up to `await Promise.allSettled(closePromises)`
closeAll(k) ==
  /\ closer[k].pc = "idle"
  /\ LET res == closeLoop(connections, ended, endedAgain) IN
     /\ ended' = res.ended
     /\ endedAgain' = res.endedAgain
     /\ closer' = [closer EXCEPT ![k] =
          [pc |-> "awaiting", pools |-> res.pools, rejected |-> res.rejected,
           logged |-> FALSE]]
  /\ UNCHANGED <<mapVars, outerVars, env, now, connections, nextId, nextPool, create, request>>

\* a pool that is ending has ended once its clients are back: no query of
\* a request is in flight on it
Drained(p) ==
  \A r \in Requesters : ~(request[r].pc = "awaiting" /\ request[r].pool = p)

\* the registry after closeAll's last statement
clear(conns) == [id \in {} |-> conns[id]]

\* every close promise has settled: the registry is cleared and closeAll's
\* promise settles
CloseAllResumes(k) ==
  /\ closer[k].pc = "awaiting"
  /\ \A p \in closer[k].pools \ closer[k].rejected : Drained(p)
  /\ connections' = clear(connections)
  /\ closer' = [closer EXCEPT ![k] =
       [pc |-> closeAllOutcome(closer[k].rejected), pools |-> {},
        rejected |-> {}, logged |-> closer[k].rejected # {}]]
  /\ UNCHANGED <<mapVars, outerVars, env, now, nextId, nextPool, ended, endedAgain,
                 create, request>>

\* ------------------------------------------------------------------------
\* Time
\* ------------------------------------------------------------------------
\* the clock advances by one millisecond
Tick ==
  /\ now + 1 \in ClockValues
  /\ now' = now + 1
  /\ UNCHANGED <<mapVars, outerVars, env, connections, nextId, nextPool, ended, endedAgain,
                 create, request, closer>>

\* the invocations are taken in order: invocation n + 1 starts after
\* invocation n has started
InOrder(tasks, n) == IF n = 1 THEN TRUE ELSE tasks[n - 1].pc # "idle"

\* the steps of a createConnection invocation after its first await
CreateSettles(c) ==
  \/ \E ok \in BOOLEAN : ConnectSettles(c, ok)
  \/ \E ok \in BOOLEAN : ProbeSettles(c, ok)
  \/ EndSettles(c)

\* process.env is set to e; shouldBypassSSRFCheck reads it at every call
SetEnv(e) ==
  /\ e # env
  /\ env' = e
  /\ UNCHANGED <<mapVars, outerVars, now, connections, nextId, nextPool, ended, endedAgain,
                 create, request, closer>>

\* every operation of the registry, interleaved at the awaits
Next ==
  \/ \E c \in Creators, i \in RegistryDescIds :
       InOrder(create, c) /\ createConnection(c, i)
  \/ \E c \in Creators, ok \in BOOLEAN : ConnectSettles(c, ok)
  \/ \E c \in Creators, ok \in BOOLEAN : ProbeSettles(c, ok)
  \/ \E c \in Creators : EndSettles(c)
  \/ \E r \in Requesters, kind \in RequestKinds, id \in RequestIds :
       InOrder(request, r) /\ Request(r, kind, id)
  \/ \E r \in Requesters, ok \in BOOLEAN : QuerySettles(r, ok)
  \/ cleanupStaleConnections
  \/ \E k \in Closers : InOrder(closer, k) /\ closeAll(k)
  \/ \E k \in Closers : CloseAllResumes(k)
  \/ Tick

Spec == Init /\ [][Next]_vars

\* createConnection invocations, the sweep and the clock
NextCreate ==
  \/ \E c \in Creators, i \in RegistryDescIds :
       InOrder(create, c) /\ createConnection(c, i)
  \/ \E c \in Creators, ok \in BOOLEAN : ConnectSettles(c, ok)
  \/ \E c \in Creators, ok \in BOOLEAN : ProbeSettles(c, ok)
  \/ \E c \in Creators : EndSettles(c)
  \/ cleanupStaleConnections
  \/ Tick

SpecCreate == Init /\ [][NextCreate]_vars

\* requests, the sweep, the clock and one createConnection invocation
NextSweep ==
  \/ \E i \in RegistryDescIds : createConnection(1, i)
  \/ CreateSettles(1)
  \/ \E r \in Requesters, kind \in RequestKinds, id \in RequestIds :
       InOrder(request, r) /\ Request(r, kind, id)
  \/ \E r \in Requesters, ok \in BOOLEAN : QuerySettles(r, ok)
  \/ cleanupStaleConnections
  \/ Tick

SpecSweep == Init /\ [][NextSweep]_vars

\* closeAll invocations, requests, the sweep and one createConnection
\* invocation
NextClose ==
  \/ \E i \in RegistryDescIds : createConnection(1, i)
  \/ CreateSettles(1)
  \/ \E r \in Requesters, kind \in RequestKinds, id \in RequestIds :
       InOrder(request, r) /\ Request(r, kind, id)
  \/ \E r \in Requesters, ok \in BOOLEAN : QuerySettles(r, ok)
  \/ cleanupStaleConnections
  \/ \E k \in Closers : InOrder(closer, k) /\ closeAll(k)
  \/ \E k \in Closers : CloseAllResumes(k)

\* the driver settles every query (query_timeout bounds it) and the event
\* loop runs the continuation of a settled await
FairClose ==
  /\ Init
  /\ [][NextClose]_vars
  /\ WF_vars(\E r \in Requesters, ok \in BOOLEAN : QuerySettles(r, ok))
  /\ \A k \in Closers : WF_vars(CloseAllResumes(k))

\* createConnection invocations with every descriptor, from the empty
\* registry of a service just constructed, while the operator sets the
\* environment
InitGate == Start(RegistryEnv, 0)

NextGate ==
  \/ \E c \in Creators, i \in DescIds :
       InOrder(create, c) /\ createConnection(c, i)
  \/ \E c \in Creators, ok \in BOOLEAN : ConnectSettles(c, ok)
  \/ \E c \in Creators, ok \in BOOLEAN : ProbeSettles(c, ok)
  \/ \E c \in Creators : EndSettles(c)
  \/ \E e \in Envs : SetEnv(e)

SpecGate == InitGate /\ [][NextGate]_vars

TypeOK ==
  /\ now \in ClockValues
  /\ DOMAIN connections \subseteq 1..(nextId - 1)
  /\ endedAgain \subseteq ended

\* ------------------------------------------------------------------------
\* Properties of the registry
\* ------------------------------------------------------------------------
\* the pools the registry maps some identifier to
RegisteredPools == {connections[id].pool : id \in DOMAIN connections}

\* C1: in every reachable state the registry holds at most MAX_CONNECTIONS
\* sessions, whatever the interleaving of the createConnection calls.
C1_CapacityNeverExceeded == size(connections) <= MAX_CONNECTIONS

\* C2: a run of the sweep never calls end() on a pool that a request which
\* got it from getPool still has a query in flight on.
C2_SweepSparesPoolsInUse ==
  [][cleanupStaleConnections =>
       \A r \in Requesters :
         request[r].pc = "awaiting"
           => request[r].pool \notin ended' \ ended]_vars

\* C3: every pool getPool returns belongs to a session whose probe
\* succeeded and on which end() has not been called.
C3_GetPoolReturnsLivePool ==
  \A r \in Requesters :
    /\ ~request[r].gotEnded
    /\ \A c \in Creators :
         (request[r].pool # NoPool /\ create[c].pool = request[r].pool)
           => create[c].result = "ok"

\* a createConnection invocation whose connect or probe failed
CreateFailed(c) ==
  \/ create[c].pc = "ending"
  \/ create[c].pc = "done" /\ create[c].pool # NoPool /\ create[c].result # "ok"

\* C5: when pool.connect() or the probe fails, createConnection has ended
\* the pool it created, raises the connection-failed error, no identifier
\* ever maps to that pool, and the failing steps leave the registry as it was.
C5_FailedProbeLeavesNoSession ==
  /\ [](\A c \in Creators :
          /\ CreateFailed(c) =>
               /\ create[c].pool \in ended
               /\ create[c].result = "ConnectionError"
          /\ (create[c].pool # NoPool /\ create[c].result # "ok") =>
               create[c].pool \notin RegisteredPools)
  /\ [][\A c \in Creators :
          (CreateFailed(c)' /\ create'[c] # create[c])
            => connections' = connections]_vars

\* a createConnection whose connect failed and one whose probe failed have
\* thrown
C5_Witness ==
  /\ \E c \in Creators :
       /\ create[c].pc = "done"
       /\ create[c].result = "ConnectionError"
       /\ create[c].client = "none"
  /\ \E c \in Creators :
       /\ create[c].pc = "done"
       /\ create[c].result = "ConnectionError"
       /\ create[c].client = "released"

\* C4: closeAll never rejects, also when some end() fails; it calls end()
\* on every session registered when it is invoked; when it resolves the
\* registry is empty; and, the driver settling its queries, it always
\* resolves.
C4_CloseAllResolves ==
  /\ [](\A k \in Closers : closer[k].pc \in {"idle", "awaiting", "resolved"})
  /\ [][\A k \in Closers :
          (closer[k].pc = "idle" /\ closer'[k].pc # "idle")
            => /\ RegisteredPools \subseteq ended'
               /\ closer'[k].pools = RegisteredPools]_vars
  /\ [][\A k \in Closers :
          (closer[k].pc = "awaiting" /\ closer'[k].pc # "awaiting")
            => /\ closer'[k].pc = "resolved"
               /\ DOMAIN connections' = {}
               /\ closer[k].pools \subseteq ended']_vars
  /\ \A k \in Closers :
       (closer[k].pc = "awaiting") ~> (closer[k].pc = "resolved")

\* a closeAll has resolved although an end() it called had failed
C4_Witness ==
  \E k \in Closers :
    /\ closer[k].pc = "resolved"
    /\ closer[k].logged
    /\ DOMAIN connections = {}

\* C6: a run of the sweep at time now leaves exactly the sessions with
\* now - createdAt <= TTL, unchanged and their pools not ended by it; the
\* pool of every removed session is ended; getPool on a removed identifier
\* fails then and ever after (an identifier once issued and no longer
\* registered is never registered again).
C6_SweepKeepsExactlyTheYoung ==
  /\ [][cleanupStaleConnections =>
          LET young == {id \in DOMAIN connections :
                          now - connections[id].createdAt <= TTL_MS} IN
          /\ DOMAIN connections' = young
          /\ \A id \in young :
               /\ connections'[id] = connections[id]
               /\ connections[id].pool \in ended'
                    <=> connections[id].pool \in ended
          /\ \A id \in DOMAIN connections \ young :
               /\ connections[id].pool \in ended'
               /\ getPool(connections', id) = NoPool]_vars
  /\ [][\A id \in 1..(nextId - 1) :
          id \notin DOMAIN connections
            => getPool(connections', id) = NoPool]_vars

\* the sweep has removed the session older than the TTL, ended its pool and
\* kept the sessions exactly as old as the TTL; a getPool on the removed
\* identifier has failed
C6_Witness ==
  /\ now = StartTime
  /\ 1 \notin DOMAIN connections
  /\ 1 \in ended
  /\ 2 \in DOMAIN connections
  /\ 2 \notin ended
  /\ \E r \in Requesters :
       request[r].result = "Connection not found or expired"

CapacityError == "Maximum number of concurrent connections reached"

\* C8: a createConnection call that finds MAX_CONNECTIONS sessions or more
\* fails without constructing a pool and leaves the registry unchanged,
\* with the capacity error when its descriptor passes the gate; one whose
\* descriptor passes the gate and that finds fewer sessions constructs its
\* pool, and from then on fails only if the connect or the probe fails:
\* once they succeed the session is registered.
C8_CapacityCheckedFirst ==
  /\ [][\A c \in Creators :
          ( /\ create[c].pc = "idle"
            /\ create'[c].pc # "idle"
            /\ size(connections) >= MAX_CONNECTIONS )
            => /\ create'[c].pc = "done"
               /\ create'[c].pool = NoPool
               /\ nextPool' = nextPool
               /\ connections' = connections]_vars
  /\ [][\A c \in Creators :
          ( /\ create[c].pc = "idle"
            /\ create'[c].pc # "idle"
            /\ Gate(env, Descriptors[create'[c].desc]) = "ok" )
            => IF size(connections) >= MAX_CONNECTIONS
                 THEN /\ create'[c].pc = "done"
                      /\ create'[c].result = CapacityError
                      /\ create'[c].pool = NoPool
                      /\ nextPool' = nextPool
                      /\ connections' = connections
                 ELSE /\ create'[c].pc = "connecting"
                      /\ create'[c].pool = nextPool
                      /\ nextPool' = nextPool + 1]_vars
  /\ [][\A c \in Creators :
          (create[c].pc = "probing" /\ create'[c].pc = "done")
            => /\ create'[c].result = "ok"
               /\ create[c].pool \in {connections'[id].pool :
                                        id \in DOMAIN connections'}]_vars
  /\ [](\A c \in Creators :
          (create[c].pool # NoPool /\ create[c].result # "ok")
            => create[c].result \in {"none", "ConnectionError"})

\* a call was refused at 100 sessions, the sweep removed one session, and
\* the next call registered its session
C8_Witness ==
  /\ create[1].result = CapacityError
  /\ create[1].pool = NoPool
  /\ create[2].result = "ok"
  /\ 1 \notin DOMAIN connections
  /\ size(connections) = MAX_CONNECTIONS

\* the descriptors of the inputs that the gate has to reject: blocked host,
\* blocked host in mixed case, private ranges, wrong protocol, port 0,
\* port above 65535, text that is not a URL
RejectedDescIds == {3, 4, 5, 6, 7, 8, 9, 10}

\* the descriptors with a wrong protocol or a port out of range
BadProtocolOrPortIds == {7, 8, 9}

\* a createConnection invocation was entered with bypass disabled
EnteredWithoutBypass(c) ==
  /\ create[c].pc = "idle"
  /\ create'[c].pc # "idle"
  /\ ~(env.NODE_ENV = "development" /\ env.ALLOW_LOCALHOST = "true")

\* a createConnection invocation was entered with bypass enabled
EnteredWithBypass(c) ==
  /\ create[c].pc = "idle"
  /\ create'[c].pc # "idle"
  /\ env.NODE_ENV = "development" /\ env.ALLOW_LOCALHOST = "true"

\* C9: with bypass disabled a descriptor the gate has to reject makes
\* createConnection throw a validation error without constructing a pool
\* and without changing the registry; with bypass enabled the same
\* descriptor gets its pool and, once connect and probe succeed, a
\* registered session.
C9_GateRejectsBeforePool ==
  /\ [][\A c \in Creators :
          (EnteredWithoutBypass(c) /\ create'[c].desc \in RejectedDescIds)
            => /\ create'[c].pc = "done"
               /\ create'[c].result \notin {"none", "ok", CapacityError,
                                            "ConnectionError"}
               /\ create'[c].pool = NoPool
               /\ nextPool' = nextPool
               /\ connections' = connections]_vars
  /\ [][\A c \in Creators :
          (EnteredWithBypass(c) /\ create'[c].desc \in RejectedDescIds)
            => /\ create'[c].pc = "connecting"
               /\ create'[c].pool = nextPool]_vars
  /\ [](\A c \in Creators :
          create[c].result = "ok" => create[c].pool \in RegisteredPools)

\* the descriptor for 127.0.0.1 was refused with bypass disabled and, after
\* bypass was enabled, registered
C9_Witness ==
  /\ create[1].desc = 3
  /\ create[1].pc = "done"
  /\ create[1].pool = NoPool
  /\ create[2].desc = 3
  /\ create[2].result = "ok"
  /\ create[2].pool \in RegisteredPools

\* C10: also with bypass enabled, createConnection rejects a descriptor
\* with a wrong protocol or a port out of range before it allocates a pool.
C10_BypassKeepsProtocolAndPort ==
  \A c \in Creators :
    (create[c].pc # "idle" /\ create[c].desc \in BadProtocolOrPortIds)
      => create[c].pc = "done" /\ create[c].pool = NoPool

\* ------------------------------------------------------------------------
\* Strings of the mapping service
\* ------------------------------------------------------------------------
\* the printable ASCII characters in the order of their code units (the
\* grave accent, which no input holds, by its name)
ASCII ==
  <<" ","!","\"","#","$","%","&","'","(",")","*","+",",","-",".","/",
    "0","1","2","3","4","5","6","7","8","9",":",";","<","=",">","?","@",
    "A","B","C","D","E","F","G","H","I","J","K","L","M",
    "N","O","P","Q","R","S","T","U","V","W","X","Y","Z",
    "[","\\","]","^","_","grave accent",
    "a","b","c","d","e","f","g","h","i","j","k","l","m",
    "n","o","p","q","r","s","t","u","v","w","x","y","z",
    "{","|","}","~">>

\* String.prototype.charCodeAt of a one-character string
charCodeAt(c) == 31 + (CHOOSE i \in 1..Len(ASCII) : ASCII[i] = c)

\* the white space String.prototype.trim removes
WhiteSpace == {" ", "\t", "\n", "\r"}

\* String.prototype.trim
RECURSIVE trim(_)
trim(s) ==
  IF s = <<>> THEN s
  ELSE IF Head(s) \in WhiteSpace THEN trim(Tail(s))
  ELSE IF s[Len(s)] \in WhiteSpace THEN trim(SubSeq(s, 1, Len(s) - 1))
  ELSE s

\* String.prototype.split(".")
RECURSIVE split(_)
split(s) ==
  LET dots == {k \in 1..Len(s) : s[k] = "."} IN
  IF dots = {} THEN <<s>>
  ELSE LET k == CHOOSE d \in dots : \A e \in dots : d <= e IN
       <<SubSeq(s, 1, k - 1)>> \o split(SubSeq(s, k + 1, Len(s)))

\* Array.prototype.join(".")
RECURSIVE join(_)
join(segs) ==
  IF Len(segs) = 0 THEN <<>>
  ELSE IF Len(segs) = 1 THEN segs[1]
  ELSE segs[1] \o <<".">> \o join(Tail(segs))

Letters ==
  {UpperChars[i] : i \in 1..26} \cup {LowerChars[i] : i \in 1..26}

\* /^[a-zA-Z_][a-zA-Z0-9_]*$/.test(s)
IdentifierPattern(s) ==
  /\ Len(s) >= 1
  /\ s[1] \in Letters \cup {"_"}
  /\ \A i \in 2..Len(s) : s[i] \in Letters \cup Digits \cup {"_"}

\* the order of Array.prototype.sort without a comparator: by code units
LessThan(s, t) ==
  \/ Len(s) < Len(t) /\ \A i \in 1..Len(s) : s[i] = t[i]
  \/ \E k \in 1..Len(s) :
       /\ k <= Len(t)
       /\ \A i \in 1..(k - 1) : s[i] = t[i]
       /\ charCodeAt(s[k]) < charCodeAt(t[k])

\* a scan that takes the paths in the order they were first seen
unsorted(q) == q

\* [...seen].sort() of a sequence of distinct strings: every string at
\* the place its rank gives it
sort(q) ==
  LET rank(i) == 1 + Cardinality({j \in 1..Len(q) : LessThan(q[j], q[i])}) IN
  [k \in 1..Len(q) |-> q[CHOOSE i \in 1..Len(q) : rank(i) = k]]

\* ------------------------------------------------------------------------
\* MappingService.validateMapping
\* ------------------------------------------------------------------------
\* one message of the details of the ValidationError "Invalid mapping":
\*   "source column is required"  Row ${row}: source column is required
\*   "target path is required"    Row ${row}: target path is required
\*   "invalid segment"            Row ${row}: "${path}" contains invalid
\*                                segment "${other}"
\*   "Duplicate target path"      Duplicate target path: "${path}"
\*   "Path collision"             Path collision: "${path}" conflicts with
\*                                "${other}"
Message(kind, row, path, other) ==
  [kind |-> kind, row |-> row, path |-> path, other |-> other]

\* mapping.map((m) => m.targetPath.trim())
paths(mapping) == [i \in 1..Len(mapping) |-> trim(mapping[i].targetPath)]

\* the body of the loop over the entries, for entry i
entryErrors(mapping, i) ==
  LET sourceColumn == mapping[i].sourceColumn
      targetPath == mapping[i].targetPath
      segments == split(trim(targetPath))
      bad == {k \in 1..Len(segments) : ~IdentifierPattern(segments[k])}
  IN
  (IF sourceColumn = <<>>
     THEN <<Message("source column is required", i, <<>>, <<>>)>>
     ELSE <<>>)
  \o
  (IF targetPath = <<>> \/ trim(targetPath) = <<>>
     THEN <<Message("target path is required", i, <<>>, <<>>)>>
   ELSE IF bad # {}
     THEN <<Message("invalid segment", i, targetPath,
                    segments[CHOOSE k \in bad : \A l \in bad : k <= l])>>
   ELSE <<>>)

\* the loop over the entries, from entry i on
RECURSIVE entryLoop(_, _)
entryLoop(mapping, i) ==
  IF i > Len(mapping) THEN <<>>
  ELSE entryErrors(mapping, i) \o entryLoop(mapping, i + 1)

\* Set.prototype.has, the Set kept in insertion order
has(seen, p) == \E k \in 1..Len(seen) : seen[k] = p

\* Set.prototype.add
add(seen, p) == IF has(seen, p) THEN seen ELSE Append(seen, p)

\* the loop over the paths, from path i on: the Set of the paths seen and
\* the messages for the repeated ones
RECURSIVE duplicateLoop(_, _, _, _)
duplicateLoop(ps, i, seen, errors) ==
  IF i > Len(ps) THEN [seen |-> seen, errors |-> errors]
  ELSE LET normalized == trim(ps[i]) IN
       IF normalized = <<>> THEN duplicateLoop(ps, i + 1, seen, errors)
       ELSE duplicateLoop(ps, i + 1, add(seen, normalized),
              IF has(seen, normalized)
                THEN Append(errors,
                       Message("Duplicate target path", 0, normalized, <<>>))
                ELSE errors)

\* a test that takes every path that starts with another for its child
startsWithText(s, p) == StartsWith(s, p)

\* sorted[i + 1].startsWith(sorted[i] + ".")
startsWithDot(s, p) == StartsWith(s, p \o <<".">>)

\* the loop over the adjacent pairs of the sorted paths, from pair i on
RECURSIVE collisionLoop(_, _)
collisionLoop(sorted, i) ==
  IF i > Len(sorted) - 1 THEN <<>>
  ELSE (IF startsWithDot(sorted[i + 1], sorted[i])
          THEN <<Message("Path collision", 0, sorted[i], sorted[i + 1])>>
          ELSE <<>>)
       \o collisionLoop(sorted, i + 1)

\* the Set `seen` after the duplicate loop
seenPaths(mapping) == duplicateLoop(paths(mapping), 1, <<>>, <<>>).seen

\* validateMapping: the array `errors`; the call throws the ValidationError
\* "Invalid mapping" with these details when the array is not empty
validateMapping(mapping) ==
  LET dup == duplicateLoop(paths(mapping), 1, <<>>, <<>>) IN
  entryLoop(mapping, 1) \o dup.errors \o collisionLoop(sort(dup.seen), 1)

\* ------------------------------------------------------------------------
\* Calls of validateMapping
\* ------------------------------------------------------------------------
\* the longest mapping handed to validateMapping
MaxEntries == 3

MappingEntry(s, t) == [sourceColumn |-> s, targetPath |-> t]

ColC == <<"c">>
ColD == <<"d">>

\* the entries the mappings are made of
ValidatorEntries ==
  << MappingEntry(ColC, <<"a">>),
     MappingEntry(ColD, <<"a">>),
     MappingEntry(ColC, <<" ","a"," ">>),
     MappingEntry(ColD, <<"a",".","b">>),
     MappingEntry(ColC, <<"a",".","c">>),
     MappingEntry(ColD, <<"a","b">>),
     MappingEntry(ColC, <<"a","-","b">>),
     MappingEntry(<<>>, <<"b">>),
     MappingEntry(ColC, <<" ">>),
     MappingEntry(ColC, <<"b",".","1">>) >>

\* the mappings of at most n entries of the sequence es
MappingsOf(es, n) ==
  UNION {[1..k -> {es[i] : i \in 1..Len(es)}] : k \in 0..n}

\* a call of validateMapping on the mapping m
Validate(m) ==
  /\ validation.pc = "idle"
  /\ validation' =
       [pc |-> "done", mapping |-> m, errors |-> validateMapping(m)]
  /\ UNCHANGED <<registryVars, outerVars, fold, preview>>

\* validateMapping called on every mapping, by a service just constructed
NextValidate == \E m \in MappingsOf(ValidatorEntries, MaxEntries) : Validate(m)

SpecValidate == Start(RegistryEnv, 0) /\ [][NextValidate]_vars

\* ------------------------------------------------------------------------
\* Properties of validateMapping
\* ------------------------------------------------------------------------
\* p is a strict dot-prefix of q: the segments of p are the first segments
\* of q, and q has more
DotPrefix(p, q) ==
  LET a == split(p)
      b == split(q) IN
  Len(a) < Len(b) /\ SubSeq(b, 1, Len(a)) = a

\* the four conditions on a mapping
EntriesFilled(m) ==
  \A i \in 1..Len(m) :
    m[i].sourceColumn # <<>> /\ trim(m[i].targetPath) # <<>>

SegmentsValid(m) ==
  \A i \in 1..Len(m) :
    LET segs == split(trim(m[i].targetPath)) IN
    \A k \in 1..Len(segs) : IdentifierPattern(segs[k])

PathsDistinct(m) ==
  \A i, j \in 1..Len(m) :
    i # j => trim(m[i].targetPath) # trim(m[j].targetPath)

NoPathPrefixesAnother(m) ==
  \A i, j \in 1..Len(m) :
    ~DotPrefix(trim(m[i].targetPath), trim(m[j].targetPath))

\* the mappings with the entries of m in another order
Permuted(m) ==
  {[i \in 1..Len(m) |-> m[f[i]]] :
     f \in {g \in [1..Len(m) -> 1..Len(m)] :
              \A i, j \in 1..Len(m) : i # j => g[i] # g[j]}}

\* C11: validateMapping accepts a mapping exactly when every entry has a
\* non-empty source column and a non-blank target path, every segment of
\* every trimmed path is an identifier, no two trimmed paths are equal and
\* none is a strict dot-prefix of another; the outcome is the same for
\* every order of the entries.
C11_AcceptsExactlyTheWellFormed ==
  validation.pc = "done" =>
    LET m == validation.mapping IN
    /\ validation.errors = <<>>
         <=> /\ EntriesFilled(m)
             /\ SegmentsValid(m)
             /\ PathsDistinct(m)
             /\ NoPathPrefixesAnother(m)
    /\ \A m2 \in Permuted(m) :
         (validateMapping(m2) = <<>>) <=> (validation.errors = <<>>)

\* the child path was listed before its parent, with another source
\* column, and the mapping was rejected
C11_Witness ==
  /\ validation.pc = "done"
  /\ validation.mapping =
       << MappingEntry(ColD, <<"a",".","b">>), MappingEntry(ColC, <<"a">>) >>
  /\ validation.errors # <<>>

\* the sorted paths of the mapping validated
sortedPaths == sort(seenPaths(validation.mapping))

\* some path of the sequence q is a strict dot-prefix of another
SomePrefixPair(q) == \E i, j \in 1..Len(q) : DotPrefix(q[i], q[j])

\* every segment of every path of the sequence q is an identifier
IdentifierPaths(q) ==
  \A i \in 1..Len(q) :
    \A k \in 1..Len(split(q[i])) : IdentifierPattern(split(q[i])[k])

\* C12 (as stated): in the sorted order of any set of distinct trimmed
\* paths, two paths of which one is a strict dot-prefix of the other are
\* adjacent, and the adjacent scan reports a collision exactly when some
\* path is a strict dot-prefix of another.
C12_PrefixPairsAreAdjacent ==
  validation.pc = "done" =>
    /\ \A i, j \in 1..Len(sortedPaths) :
         DotPrefix(sortedPaths[i], sortedPaths[j]) => j = i + 1
    /\ collisionLoop(sortedPaths, 1) # <<>> <=> SomePrefixPair(sortedPaths)

\* C12 (amended): for distinct trimmed paths whose segments are all
\* identifiers, a path that is a strict dot-prefix of another is directly
\* followed, in the sorted order, by a path it is a strict dot-prefix of;
\* so the adjacent scan reports a collision exactly when some path is a
\* strict dot-prefix of another.
C12_ScanFindsSomeCollision ==
  (validation.pc = "done" /\ IdentifierPaths(sortedPaths)) =>
    /\ \A i \in 1..Len(sortedPaths) :
         (\E j \in 1..Len(sortedPaths) :
            DotPrefix(sortedPaths[i], sortedPaths[j]))
           => /\ i < Len(sortedPaths)
              /\ DotPrefix(sortedPaths[i], sortedPaths[i + 1])
    /\ collisionLoop(sortedPaths, 1) # <<>> <=> SomePrefixPair(sortedPaths)

\* a parent listed after its two children: sorted, the second child is not
\* adjacent to the parent, and the scan reports the first
C12_Witness ==
  /\ validation.pc = "done"
  /\ validation.mapping =
       << MappingEntry(ColC, <<"a",".","c">>),
          MappingEntry(ColD, <<"a",".","b">>),
          MappingEntry(ColC, <<"a">>) >>
  /\ sortedPaths = << <<"a">>, <<"a",".","b">>, <<"a",".","c">> >>
  /\ \E k \in 1..Len(validation.errors) :
       validation.errors[k] =
         Message("Path collision", 0, <<"a">>, <<"a",".","b">>)

\* the message for the pair of paths p and q is among the errors
Reported(kind, row, p, q) ==
  \E k \in 1..Len(validation.errors) :
    /\ validation.errors[k].kind = kind
    /\ validation.errors[k].row = row
    /\ validation.errors[k].path = p
    /\ kind = "Path collision" => validation.errors[k].other = q

\* C13: the details of the error hold a message for every row with an
\* empty source column, for every row with an empty or invalid target
\* path, for every repeated target path and for every pair of target paths
\* of which one is a strict dot-prefix of the other.
C13_EveryViolationReported ==
  validation.pc = "done" =>
    LET m == validation.mapping
        p == paths(m) IN
    /\ \A i \in 1..Len(m) :
         m[i].sourceColumn = <<>>
           => Reported("source column is required", i, <<>>, <<>>)
    /\ \A i \in 1..Len(m) :
         p[i] = <<>> => Reported("target path is required", i, <<>>, <<>>)
    /\ \A i \in 1..Len(m) :
         (p[i] # <<>> /\ ~IdentifierPaths(<<p[i]>>))
           => Reported("invalid segment", i, m[i].targetPath, <<>>)
    /\ \A i, j \in 1..Len(m) :
         (i < j /\ p[i] # <<>> /\ p[i] = p[j])
           => Reported("Duplicate target path", 0, p[i], <<>>)
    /\ \A i, j \in 1..Len(m) :
         (p[i] # <<>> /\ DotPrefix(p[i], p[j]))
           => Reported("Path collision", 0, p[i], p[j])

\* ------------------------------------------------------------------------
\* MappingService.applyMapping and setNestedValue
\* ------------------------------------------------------------------------
\* A value is a record [t, s]: t is its kind and s the text of a scalar.
\*   "scalar"     a string, number or boolean
\*   "null"       null
\*   "array"      an array
\*   "object"     an object literal {} created by setNestedValue
\*   "function"   a method inherited from Object.prototype
\*   "undefined"  undefined
\* A document is the object `result` as a function from the paths of its
\* own properties (sequences of keys) to values; the own properties of the
\* object at path p are the paths p \o <<key>>.
Value(t, s) == [t |-> t, s |-> s]
Undefined == Value("undefined", "")
Null == Value("null", "")
EmptyObject == Value("object", "")
Method == Value("function", "")

\* the keys of the methods that every object literal inherits from
\* Object.prototype
ObjectPrototypeMethods ==
  { <<"c","o","n","s","t","r","u","c","t","o","r">>,
    <<"t","o","S","t","r","i","n","g">>,
    <<"v","a","l","u","e","O","f">> }

\* current[key], current the object at path cur of the document
Get(doc, cur, key) ==
  IF Append(cur, key) \in DOMAIN doc THEN doc[Append(cur, key)]
  ELSE IF key \in ObjectPrototypeMethods THEN Method
  ELSE Undefined

\* current[key] = v
Put(doc, cur, key, v) ==
  LET p == Append(cur, key)
      below(q) == Len(q) > Len(p) /\ SubSeq(q, 1, Len(p)) = p IN
  [q \in {r \in DOMAIN doc : ~below(r)} \cup {p} |->
     IF q = p THEN v ELSE doc[q]]

\* typeof v === "object"
TypeofObject(v) == v.t \in {"object", "null", "array"}

\* Array.isArray(v)
IsArray(v) == v.t = "array"

\* Object.keys(current[key]).length, for a value that is an object literal
KeysLength(doc, cur, key) ==
  Cardinality({q \in DOMAIN doc : Len(q) = Len(cur) + 2
                 /\ SubSeq(q, 1, Len(cur) + 1) = Append(cur, key)})

\* the errors of setNestedValue
NestedCollision ==
  "Cannot create nested path because a scalar value already exists at this location."
AssignCollision ==
  "Cannot assign scalar value because nested properties already exist at this location."
KeysTypeError == "TypeError: Cannot convert undefined or null to object"

\* the test of the intermediate segment
existingIsScalar(existing) ==
  /\ existing.t # "undefined" /\ existing.t # "null"
  /\ ~TypeofObject(existing) \/ IsArray(existing)

\* the loop over the segments before the last, from segment i on, and the
\* assignment of the last: the document and the error thrown, if any
RECURSIVE walk(_, _, _, _, _)
walk(doc, segments, i, cur, value) ==
  IF i <= Len(segments) - 1
    THEN LET key == segments[i]
             existing == Get(doc, cur, key) IN
         IF existingIsScalar(existing)
           THEN [doc |-> doc, error |-> NestedCollision,
                 at |-> join(SubSeq(segments, 1, i))]
         ELSE walk(IF existing.t \in {"undefined", "null"}
                     THEN Put(doc, cur, key, EmptyObject) ELSE doc,
                   segments, i + 1, Append(cur, key), value)
    ELSE LET finalKey == segments[Len(segments)]
             existing == Get(doc, cur, finalKey) IN
         IF existing.t # "undefined" /\ TypeofObject(existing)
              /\ ~IsArray(existing)
           THEN IF existing.t = "null"
                  THEN [doc |-> doc, error |-> KeysTypeError,
                        at |-> join(segments)]
                ELSE IF KeysLength(doc, cur, finalKey) > 0
                  THEN [doc |-> doc, error |-> AssignCollision,
                        at |-> join(segments)]
                ELSE [doc |-> Put(doc, cur, finalKey, value),
                      error |-> "none", at |-> <<>>]
         ELSE [doc |-> Put(doc, cur, finalKey, value),
               error |-> "none", at |-> <<>>]

\* setNestedValue(obj, dotPath, value)
setNestedValue(doc, dotPath, value) ==
  walk(doc, split(dotPath), 1, <<>>, value)

\* row[sourceColumn] ?? null
valueOf(row, sourceColumn) ==
  IF sourceColumn \in DOMAIN row THEN row[sourceColumn] ELSE Null

\* the body of the loop of applyMapping, for entry i
foldEntry(doc, row, mapping, i) ==
  setNestedValue(doc, trim(mapping[i].targetPath),
                 valueOf(row, mapping[i].sourceColumn))

\* the loop of applyMapping from entry i on: the document, or the error
\* that ends the loop
RECURSIVE foldLoop(_, _, _, _)
foldLoop(doc, row, mapping, i) ==
  IF i > Len(mapping) THEN [doc |-> doc, error |-> "none", at |-> <<>>]
  ELSE LET res == foldEntry(doc, row, mapping, i) IN
       IF res.error # "none" THEN res
       ELSE foldLoop(res.doc, row, mapping, i + 1)

\* applyMapping(row, mapping)
applyMapping(row, mapping) == foldLoop(<<>>, row, mapping, 1)

\* ------------------------------------------------------------------------
\* Calls of applyMapping
\* ------------------------------------------------------------------------
ColE == <<"e">>

\* the entries of the mappings folded; validateMapping has not necessarily
\* seen them
FoldEntries ==
  << MappingEntry(ColC, <<"x">>),
     MappingEntry(ColD, <<"x">>),
     MappingEntry(ColD, <<"x",".","y">>),
     MappingEntry(ColC, <<"x",".","z">>),
     MappingEntry(ColE, <<" ","z",".","w"," ">>),
     MappingEntry(ColC,
       <<"c","o","n","s","t","r","u","c","t","o","r",".","x">>) >>

\* the rows: column c holds a text, null or an array, column d a text or
\* null, and there is no column e
Rows ==
  {[col \in {ColC, ColD} |-> IF col = ColC THEN vc ELSE vd] :
     vc \in {Value("scalar", "John"), Null, Value("array", "")},
     vd \in {Value("scalar", "Doe"), Null}}

\* applyMapping(row, m) up to its loop: result = {}
ApplyMapping(m, row) ==
  /\ fold.pc = "idle"
  /\ fold' = [pc |-> IF Len(m) = 0 THEN "done" ELSE "folding",
              mapping |-> m, row |-> row, i |-> 0, doc |-> <<>>,
              error |-> "none"]
  /\ UNCHANGED <<registryVars, outerVars, validation, preview>>

\* one turn of the loop of applyMapping: setNestedValue for the next entry;
\* the error it throws ends applyMapping, and after the last entry
\* applyMapping returns the document
SetNestedValue ==
  /\ fold.pc = "folding"
  /\ LET res == foldEntry(fold.doc, fold.row, fold.mapping, fold.i + 1) IN
     fold' = IF res.error # "none"
               THEN [fold EXCEPT !.pc = "failed", !.error = res.error]
               ELSE [fold EXCEPT !.i = @ + 1, !.doc = res.doc,
                       !.pc = IF fold.i + 1 = Len(fold.mapping)
                                THEN "done" ELSE "folding"]
  /\ UNCHANGED <<registryVars, outerVars, validation, preview>>

\* applyMapping called on every mapping and row
NextFold ==
  \/ \E m \in MappingsOf(FoldEntries, MaxEntries), row \in Rows :
       ApplyMapping(m, row)
  \/ SetNestedValue

SpecFold == Start(RegistryEnv, 0) /\ [][NextFold]_vars

\* ------------------------------------------------------------------------
\* Properties of the fold
\* ------------------------------------------------------------------------
\* the path of entry k of the mapping folded, as the keys of its segments
EntryPath(k) == split(trim(fold.mapping[k].targetPath))

\* the value applyMapping writes for entry k
EntryValue(k) == valueOf(fold.row, fold.mapping[k].sourceColumn)

\* C14: for a mapping whose target paths are all distinct, non-prefixing
\* and made of identifier segments, validateMapping succeeds and folding a
\* row with it never raises the path-collision error.
C14_AcceptedMappingNeverCollides ==
  (/\ fold.pc # "idle"
   /\ SegmentsValid(fold.mapping)
   /\ PathsDistinct(fold.mapping)
   /\ NoPathPrefixesAnother(fold.mapping))
    => /\ validateMapping(fold.mapping) = <<>>
       /\ fold.error \notin {NestedCollision, AssignCollision}

\* the path p holds a leaf: a scalar, null or an array
HoldsLeaf(doc, p) == p \in DOMAIN doc /\ doc[p].t # "object"

\* C15: when an intermediate segment of the path of the entry that
\* setNestedValue is called for already holds a scalar or a null leaf, the
\* call fails with the path-collision error; and every value written for
\* an earlier entry is intact in the document of a fold that completes.
C15_FoldNeverOverwrites ==
  /\ [][(SetNestedValue /\
          \E n \in 1..(Len(EntryPath(fold.i + 1)) - 1) :
             /\ HoldsLeaf(fold.doc, SubSeq(EntryPath(fold.i + 1), 1, n))
             /\ fold.doc[SubSeq(EntryPath(fold.i + 1), 1, n)].t
                  \in {"scalar", "null"})
           => fold'.error = NestedCollision]_vars
  /\ [](fold.pc = "done" =>
          \A k \in 1..Len(fold.mapping) :
            /\ EntryPath(k) \in DOMAIN fold.doc
            /\ fold.doc[EntryPath(k)] = EntryValue(k))

\* C16: for an accepted mapping and any row the fold returns a document
\* with exactly one leaf per entry, at the entry's trimmed path, holding
\* the row's value for the source column or null when the row has none;
\* every other node is a mapping on the way to a leaf.
C16_OneLeafPerEntry ==
  (fold.pc # "idle" /\ validateMapping(fold.mapping) = <<>>) =>
    /\ fold.pc # "failed"
    /\ fold.pc = "done" =>
         /\ \A k \in 1..Len(fold.mapping) : HoldsLeaf(fold.doc, EntryPath(k))
         /\ \A k \in 1..Len(fold.mapping) :
              fold.doc[EntryPath(k)] = EntryValue(k)
         /\ \A p \in DOMAIN fold.doc :
              \/ \E k \in 1..Len(fold.mapping) : p = EntryPath(k)
              \/ /\ fold.doc[p] = EmptyObject
                 /\ \E k \in 1..Len(fold.mapping) :
                      /\ Len(p) < Len(EntryPath(k))
                      /\ SubSeq(EntryPath(k), 1, Len(p)) = p

\* ------------------------------------------------------------------------
\* TableService and the database behind the pool
\* ------------------------------------------------------------------------
MAX_IDENTIFIER_LENGTH == 63

\* the PostgreSQL reserved keywords
RESERVED_KEYWORDS ==
  { <<"a","l","l">>,
    <<"a","n","a","l","y","s","e">>,
    <<"a","n","a","l","y","z","e">>,
    <<"a","n","d">>,
    <<"a","n","y">>,
    <<"a","r","r","a","y">>,
    <<"a","s">>,
    <<"a","s","c">>,
    <<"a","s","y","m","m","e","t","r","i","c">>,
    <<"b","o","t","h">>,
    <<"c","a","s","e">>,
    <<"c","a","s","t">>,
    <<"c","h","e","c","k">>,
    <<"c","o","l","l","a","t","e">>,
    <<"c","o","l","u","m","n">>,
    <<"c","o","n","s","t","r","a","i","n","t">>,
    <<"c","r","e","a","t","e">>,
    <<"c","u","r","r","e","n","t","_","c","a","t","a","l","o","g">>,
    <<"c","u","r","r","e","n","t","_","d","a","t","e">>,
    <<"c","u","r","r","e","n","t","_","r","o","l","e">>,
    <<"c","u","r","r","e","n","t","_","t","i","m","e">>,
    <<"c","u","r","r","e","n","t","_","t","i","m","e","s","t","a","m","p">>,
    <<"c","u","r","r","e","n","t","_","u","s","e","r">>,
    <<"d","e","f","a","u","l","t">>,
    <<"d","e","f","e","r","r","a","b","l","e">>,
    <<"d","e","s","c">>,
    <<"d","i","s","t","i","n","c","t">>,
    <<"d","o">>,
    <<"e","l","s","e">>,
    <<"e","n","d">>,
    <<"e","x","c","e","p","t">>,
    <<"f","a","l","s","e">>,
    <<"f","e","t","c","h">>,
    <<"f","o","r">>,
    <<"f","o","r","e","i","g","n">>,
    <<"f","r","o","m">>,
    <<"g","r","a","n","t">>,
    <<"g","r","o","u","p">>,
    <<"h","a","v","i","n","g">>,
    <<"i","n">>,
    <<"i","n","i","t","i","a","l","l","y">>,
    <<"i","n","t","e","r","s","e","c","t">>,
    <<"i","n","t","o">>,
    <<"l","a","t","e","r","a","l">>,
    <<"l","e","a","d","i","n","g">>,
    <<"l","i","m","i","t">>,
    <<"l","o","c","a","l","t","i","m","e">>,
    <<"l","o","c","a","l","t","i","m","e","s","t","a","m","p">>,
    <<"n","o","t">>,
    <<"n","u","l","l">>,
    <<"o","f","f","s","e","t">>,
    <<"o","n">>,
    <<"o","n","l","y">>,
    <<"o","r">>,
    <<"o","r","d","e","r">>,
    <<"p","l","a","c","i","n","g">>,
    <<"p","r","i","m","a","r","y">>,
    <<"r","e","f","e","r","e","n","c","e","s">>,
    <<"r","e","t","u","r","n","i","n","g">>,
    <<"s","e","l","e","c","t">>,
    <<"s","e","s","s","i","o","n","_","u","s","e","r">>,
    <<"s","o","m","e">>,
    <<"s","y","m","m","e","t","r","i","c">>,
    <<"t","a","b","l","e">>,
    <<"t","h","e","n">>,
    <<"t","o">>,
    <<"t","r","a","i","l","i","n","g">>,
    <<"t","r","u","e">>,
    <<"u","n","i","o","n">>,
    <<"u","n","i","q","u","e">>,
    <<"u","s","e","r">>,
    <<"u","s","i","n","g">>,
    <<"v","a","r","i","a","d","i","c">>,
    <<"w","h","e","n">>,
    <<"w","h","e","r","e">>,
    <<"w","i","n","d","o","w">>,
    <<"w","i","t","h">> }

\* a length test that also refuses an identifier of the maximum length
TooLongAtLimit(identifier) == Len(identifier) >= MAX_IDENTIFIER_LENGTH

\* identifier.length > this.MAX_IDENTIFIER_LENGTH
TooLong(identifier) == Len(identifier) > MAX_IDENTIFIER_LENGTH

\* `"${identifier}"`
quote(identifier) == <<"\"">> \o identifier \o <<"\"">>

\* sanitizeIdentifier: the quoted identifier, or the message of the
\* ValidationError it throws; the branch of the reserved keywords and the
\* last statement return the same text
sanitizeIdentifier(identifier) ==
  IF ~IdentifierPattern(identifier)
    THEN [error |-> "Invalid identifier", quoted |-> <<>>]
  ELSE IF TooLong(identifier)
    THEN [error |-> "Identifier exceeds PostgreSQL's maximum length",
          quoted |-> <<>>]
  ELSE IF toLowerCase(identifier) \in RESERVED_KEYWORDS
    THEN [error |-> "none", quoted |-> quote(identifier)]
  ELSE [error |-> "none", quoted |-> quote(identifier)]

\* the tables of schema public: t with the columns c, d and "a b", and
\* "t-1" with the columns c and d; there is no table "no"
TableT == <<"t">>
TableDashed == <<"t","-","1">>
TableMissing == <<"n","o">>
ColSpaced == <<"a"," ","b">>

TableNames == {TableT, TableDashed}

ColumnsOf(table) ==
  IF table = TableT THEN {ColC, ColD, ColSpaced}
  ELSE IF table = TableDashed THEN {ColC, ColD}
  ELSE {}

\* the rows of either table: one more than the largest limit a request may
\* ask for; column c holds a text in the odd rows and null in the even ones
MAX_LIMIT == 100
MIN_LIMIT == 1
DEFAULT_LIMIT == 5
RowsInTable == MAX_LIMIT + 1

TableRow(k, columns) ==
  [col \in columns |->
     IF col = ColC
       THEN (IF k % 2 = 1 THEN Value("scalar", "John") ELSE Null)
       ELSE Value("scalar", "Doe")]

\* result.rowCount of the query of validateTableExists
tableRowCount(table) == IF table \in TableNames THEN 1 ELSE 0

\* the number of rows SELECT ... LIMIT $1 returns
rowsReturned(limit) == IF limit < RowsInTable THEN limit ELSE RowsInTable

\* a query issued on the pool
Query(kind, limit) == [kind |-> kind, limit |-> limit]

\* ------------------------------------------------------------------------
\* previewRequestSchema
\* ------------------------------------------------------------------------
\* the limit of a request body: absent, or a whole number
LimitAbsent == [given |-> FALSE, value |-> 0]
LimitOf(n) == [given |-> TRUE, value |-> n]

\* a schema that puts no upper bound on the limit
limitAtLeastOne(limit) == ~limit.given \/ limit.value >= MIN_LIMIT

\* z.number().int().min(1).max(100).optional()
limitInRange(limit) ==
  ~limit.given \/ (limit.value >= MIN_LIMIT /\ limit.value <= MAX_LIMIT)

\* previewRequestSchema.parse(body): the parsed request, or ok = FALSE when
\* it throws the ZodError
previewRequestSchema(body) ==
  [ok |-> /\ Len(body.table) >= 1
          /\ limitInRange(body.limit)
          /\ Len(body.mapping) >= 1
          /\ \A i \in 1..Len(body.mapping) :
               /\ Len(body.mapping[i].sourceColumn) >= 1
               /\ Len(body.mapping[i].targetPath) >= 1,
   table |-> body.table,
   limit |-> IF body.limit.given THEN body.limit.value ELSE DEFAULT_LIMIT,
   mapping |-> body.mapping]

\* ------------------------------------------------------------------------
\* MappingService.fetchAndTransformData and ConnectionController.preview
\* ------------------------------------------------------------------------
\* [...new Set(cols)]: the columns in the order they first occur
RECURSIVE distinct(_, _)
distinct(cols, seen) ==
  IF cols = <<>> THEN seen ELSE distinct(Tail(cols), add(seen, Head(cols)))

\* mapping.map((m) => m.sourceColumn) without the Set
everySourceColumn(mapping) ==
  [i \in 1..Len(mapping) |-> mapping[i].sourceColumn]

\* [...new Set(mapping.map((m) => m.sourceColumn))]
sourceColumns(mapping) ==
  distinct([i \in 1..Len(mapping) |-> mapping[i].sourceColumn], <<>>)

\* columnNames.filter((col) => !validColumns.has(col))
invalidColumns(columnNames, validColumns) ==
  SelectSeq(columnNames, LAMBDA col : col \notin validColumns)

\* the first error of sanitizing the columns, in order, and then the table
sanitizeAll(columns, table) ==
  LET bad == {i \in 1..Len(columns) :
                sanitizeIdentifier(columns[i]).error # "none"} IN
  IF bad # {}
    THEN sanitizeIdentifier(columns[CHOOSE i \in bad :
                                      \A j \in bad : i <= j]).error
    ELSE sanitizeIdentifier(table).error

\* a map over result.rows that keeps the documents folded before the row
\* whose fold throws
mapUntilError(n, columns, mapping) ==
  LET res == [k \in 1..n |-> applyMapping(TableRow(k, columns), mapping)]
      bad == {k \in 1..n : res[k].error # "none"}
      m == IF bad = {} THEN n
           ELSE (CHOOSE k \in bad : \A j \in bad : k <= j) - 1 IN
  [error |-> "none", docs |-> [k \in 1..m |-> res[k].doc]]

\* result.rows.map((row) => this.applyMapping(row, mapping)), the query
\* having returned n rows: the documents, or the error of the first row
\* whose fold throws
mapRows(n, columns, mapping) ==
  LET res == [k \in 1..n |-> applyMapping(TableRow(k, columns), mapping)]
      bad == {k \in 1..n : res[k].error # "none"} IN
  IF bad # {}
    THEN [error |-> res[CHOOSE k \in bad : \A j \in bad : k <= j].error,
          docs |-> <<>>]
    ELSE [error |-> "none", docs |-> [k \in 1..n |-> res[k].doc]]

\* the call ends: with the error thrown (the controller hands it to the
\* error handler, which answers with it), or with the documents (the
\* controller answers with them)
Finish(pv, result, details, docs) ==
  [pv EXCEPT !.pc = "done", !.result = result, !.details = details,
             !.docs = docs]

\* a fetchAndTransformData that does not validate the mapping
skipValidation(mapping) == <<>>

\* this.validateMapping(mapping) as fetchAndTransformData calls it
mappingErrors(mapping) == validateMapping(mapping)

\* fetchAndTransformData up to its first await: validateMapping, then the
\* query of validateTableExists
transformStart(pv) ==
  LET errors == mappingErrors(pv.mapping) IN
  IF errors # <<>> THEN Finish(pv, "Invalid mapping", errors, <<>>)
  ELSE [pv EXCEPT !.pc = "tableExists",
                  !.steps = Append(@, "validateMapping"),
                  !.queries = Append(@, Query("tableExists", 0))]

\* a direct call of mappingService.fetchAndTransformData
FetchAndTransformData(table, limit, mapping) ==
  /\ preview.pc = "idle"
  /\ preview' = transformStart(
       [IdlePreview EXCEPT !.via = "service", !.table = table,
                           !.limit = limit, !.mapping = mapping])
  /\ UNCHANGED <<registryVars, outerVars, validation, fold>>

\* ConnectionController.preview up to its first await: the schema, getPool
\* and the start of fetchAndTransformData
Preview(id, body) ==
  /\ preview.pc = "idle"
  /\ LET parsed == previewRequestSchema(body)
         pool == getPool(connections, id)
         pv == [IdlePreview EXCEPT !.via = "controller",
                                   !.table = parsed.table,
                                   !.limit = parsed.limit,
                                   !.mapping = parsed.mapping] IN
     preview' =
       IF ~parsed.ok THEN Finish(pv, "Validation failed", <<>>, <<>>)
       ELSE IF pool = NoPool
         THEN Finish([pv EXCEPT !.steps = <<"schema">>],
                     getPoolError(id), <<>>, <<>>)
       ELSE transformStart([pv EXCEPT !.steps = <<"schema", "getPool">>])
  /\ UNCHANGED <<registryVars, outerVars, validation, fold>>

\* the query of validateTableExists settles: NotFoundError, or the query
\* of validateColumnsExist
TableExistsSettles(ok) ==
  /\ preview.pc = "tableExists"
  /\ preview' =
       IF ~ok THEN Finish(preview, "query failed", <<>>, <<>>)
       ELSE IF tableRowCount(preview.table) = 0
         THEN Finish(preview, "Table not found", <<>>, <<>>)
       ELSE [preview EXCEPT !.pc = "columnsExist",
                            !.steps = Append(@, "validateTableExists"),
                            !.queries = Append(@, Query("columns", 0))]
  /\ UNCHANGED <<registryVars, outerVars, validation, fold>>

\* the query of validateColumnsExist settles: the unknown-columns error,
\* the error of the sanitizer, or the row read
ColumnsExistSettles(ok) ==
  /\ preview.pc = "columnsExist"
  /\ LET cols == sourceColumns(preview.mapping)
         invalid == invalidColumns(cols, ColumnsOf(preview.table))
         sanitized == sanitizeAll(cols, preview.table) IN
     preview' =
       IF ~ok THEN Finish(preview, "query failed", <<>>, <<>>)
       ELSE IF Len(invalid) > 0
         THEN Finish(preview, "Unknown columns", invalid, <<>>)
       ELSE IF sanitized # "none"
         THEN Finish([preview EXCEPT
                        !.steps = Append(@, "validateColumnsExist")],
                     sanitized, <<>>, <<>>)
       ELSE [preview EXCEPT
               !.pc = "read",
               !.steps = @ \o <<"validateColumnsExist", "sanitize">>,
               !.queries = Append(@, Query("read", preview.limit))]
  /\ UNCHANGED <<registryVars, outerVars, validation, fold>>

\* the row read settles: every row is folded and the documents are
\* returned, or the error of a fold is thrown
ReadSettles(ok) ==
  /\ preview.pc = "read"
  /\ LET n == rowsReturned(preview.limit)
         cols == {preview.mapping[i].sourceColumn :
                    i \in 1..Len(preview.mapping)}
         res == mapRows(n, cols, preview.mapping) IN
     preview' =
       IF ~ok THEN Finish(preview, "query failed", <<>>, <<>>)
       ELSE IF res.error # "none"
         THEN Finish([preview EXCEPT !.fetched = n], res.error, <<>>, <<>>)
       ELSE Finish([preview EXCEPT !.fetched = n], "ok", <<>>, res.docs)
  /\ UNCHANGED <<registryVars, outerVars, validation, fold>>

\* ------------------------------------------------------------------------
\* Preview requests
\* ------------------------------------------------------------------------
ColF == <<"f">>

\* the mappings of the requests: accepted; rejected by validateMapping;
\* naming the unknown columns e (twice) and f; accepted, with a fold that
\* throws; naming a column the sanitizer rejects; empty; with an empty
\* source column
PreviewMappings ==
  { << MappingEntry(ColC, <<"x",".","y">>), MappingEntry(ColD, <<"z">>) >>,
    << MappingEntry(ColC, <<"x">>), MappingEntry(ColD, <<"x",".","y">>) >>,
    << MappingEntry(ColE, <<"x">>), MappingEntry(ColC, <<"y">>),
       MappingEntry(ColE, <<"z">>), MappingEntry(ColF, <<"w">>) >>,
    << MappingEntry(ColC,
         <<"c","o","n","s","t","r","u","c","t","o","r",".","x">>) >>,
    << MappingEntry(ColSpaced, <<"x">>) >>,
    <<>>,
    << MappingEntry(<<>>, <<"x">>) >> }

PreviewTables == {TableT, TableDashed, TableMissing, <<>>}

\* the limits of the direct calls and of the request bodies
ServiceLimits == {MIN_LIMIT, MAX_LIMIT, MAX_LIMIT + 1}
BodyLimits ==
  {LimitAbsent, LimitOf(MIN_LIMIT - 1), LimitOf(MAX_LIMIT),
   LimitOf(MAX_LIMIT + 1)}

\* the session registered and an identifier never issued
PreviewIds == {1, 2}

\* preview requests and direct calls of fetchAndTransformData, one at a
\* time, on a service with one session
NextPreview ==
  \/ \E table \in PreviewTables, limit \in ServiceLimits,
        mapping \in PreviewMappings :
       FetchAndTransformData(table, limit, mapping)
  \/ \E id \in PreviewIds, table \in PreviewTables, limit \in BodyLimits,
        mapping \in PreviewMappings :
       Preview(id, [table |-> table, limit |-> limit, mapping |-> mapping])
  \/ \E ok \in BOOLEAN : TableExistsSettles(ok)
  \/ \E ok \in BOOLEAN : ColumnsExistSettles(ok)
  \/ \E ok \in BOOLEAN : ReadSettles(ok)

SpecPreview == Start(RegistryEnv, 1) /\ [][NextPreview]_vars

\* ------------------------------------------------------------------------
\* Properties of the transform
\* ------------------------------------------------------------------------
\* the kinds of the queries issued on the pool, in order
QueryKinds == [i \in 1..Len(preview.queries) |-> preview.queries[i].kind]

\* the row read has been issued
ReadIssued == \E i \in 1..Len(preview.queries) : QueryKinds[i] = "read"

\* the steps of fetchAndTransformData passed, in order
TransformSteps ==
  SelectSeq(preview.steps, LAMBDA s : s \notin {"schema", "getPool"})

\* the source columns of the request that its table does not have
MissingColumns ==
  {preview.mapping[i].sourceColumn : i \in 1..Len(preview.mapping)}
    \ ColumnsOf(preview.table)

\* C17: the row read is issued only after mapping validation, the table
\* check, the column check and the sanitization of the table and of every
\* source column have succeeded, in that order; each query is issued only
\* after the steps before it; when mapping validation fails no query is
\* issued on the pool.
C17_StepsArePreconditions ==
  /\ (preview.pc # "idle" /\ validateMapping(preview.mapping) # <<>>)
       => preview.queries = <<>>
  /\ QueryKinds \in { <<>>, <<"tableExists">>, <<"tableExists", "columns">>,
                      <<"tableExists", "columns", "read">> }
  /\ Len(QueryKinds) = 1 => TransformSteps = <<"validateMapping">>
  /\ (Len(QueryKinds) = 2 /\ preview.pc = "columnsExist")
       => TransformSteps = <<"validateMapping", "validateTableExists">>
  /\ ReadIssued =>
       /\ TransformSteps = <<"validateMapping", "validateTableExists",
                             "validateColumnsExist", "sanitize">>
       /\ preview.table \in TableNames
       /\ MissingColumns = {}
       /\ IdentifierPattern(preview.table)
       /\ \A i \in 1..Len(preview.mapping) :
            IdentifierPattern(preview.mapping[i].sourceColumn)

\* a request of the controller has passed every step and awaits its read
C17_Witness ==
  /\ preview.via = "controller"
  /\ preview.pc = "read"
  /\ QueryKinds = <<"tableExists", "columns", "read">>
  /\ Len(preview.mapping) = 2

\* C18: when the mapping names source columns that the existing table does
\* not have, the row read is never issued and no row is fetched, and the
\* call that gets the answer of the column query fails with the
\* unknown-columns error, which names each missing column once and no
\* other column.
C18_UnknownColumnsNamedExactly ==
  (preview.pc # "idle" /\ preview.table \in TableNames
     /\ MissingColumns # {}) =>
    /\ ~ReadIssued
    /\ preview.fetched = 0
    /\ preview.docs = <<>>
    /\ (preview.pc = "done" /\ Len(preview.queries) = 2
          /\ preview.result # "query failed")
         => /\ preview.result = "Unknown columns"
            /\ {preview.details[i] : i \in 1..Len(preview.details)}
                 = MissingColumns
            /\ Len(preview.details) = Cardinality(MissingColumns)

\* the mapping that names e twice and f got the error naming e and f
C18_Witness ==
  /\ preview.pc = "done"
  /\ preview.table = TableT
  /\ preview.result = "Unknown columns"
  /\ preview.details = <<ColE, ColF>>
  /\ QueryKinds = <<"tableExists", "columns">>

\* C19 (as stated): for every limit passed to fetchAndTransformData the
\* read it issues is limited to at most 100 rows and at most 100 documents
\* are returned.
C19_TransformCapsTheLimit ==
  /\ \A i \in 1..Len(preview.queries) :
       preview.queries[i].kind = "read"
         => preview.queries[i].limit <= MAX_LIMIT
  /\ Len(preview.docs) <= MAX_LIMIT

\* C19 (amended): fetchAndTransformData hands the limit it is given to the
\* read as it is; the bound is the request schema's: a preview request
\* whose limit is not within 1..100 is refused before any query, so the
\* read of a request is limited to at most 100 rows and at most 100
\* documents are answered.
C19_SchemaCapsTheLimit ==
  /\ \A i \in 1..Len(preview.queries) :
       preview.queries[i].kind = "read"
         => preview.queries[i].limit = preview.limit
  /\ preview.via = "controller" =>
       /\ \A i \in 1..Len(preview.queries) :
            preview.queries[i].kind = "read"
              => preview.queries[i].limit \in MIN_LIMIT..MAX_LIMIT
       /\ Len(preview.docs) <= MAX_LIMIT
       /\ preview.limit \notin MIN_LIMIT..MAX_LIMIT
            => /\ preview.queries = <<>>
               /\ preview.result = "Validation failed"

\* a request with the largest limit was answered with 100 documents out of
\* the table's 101 rows
C19_Witness ==
  /\ preview.via = "controller"
  /\ preview.pc = "done"
  /\ preview.result = "ok"
  /\ preview.limit = MAX_LIMIT
  /\ Len(preview.docs) = MAX_LIMIT
  /\ RowsInTable > MAX_LIMIT

\* C20: a call that has ended either returns one document per fetched row,
\* each the fold of its row, none of the folds having thrown, or it fails
\* and returns no document at all.
C20_AllOrNothing ==
  preview.pc = "done" =>
    LET cols == {preview.mapping[i].sourceColumn :
                   i \in 1..Len(preview.mapping)}
        folded(k) == applyMapping(TableRow(k, cols), preview.mapping) IN
    \/ /\ preview.result = "ok"
       /\ preview.fetched = rowsReturned(preview.limit)
       /\ Len(preview.docs) = preview.fetched
       /\ \A k \in 1..preview.fetched :
            /\ folded(k).error = "none"
            /\ preview.docs[k] = folded(k).doc
    \/ /\ preview.result # "ok"
       /\ preview.docs = <<>>

\* rows were fetched, a fold threw and no document was returned
C20_Witness ==
  /\ preview.pc = "done"
  /\ preview.fetched = MAX_LIMIT
  /\ preview.result = NestedCollision
  /\ preview.docs = <<>>

\* ------------------------------------------------------------------------
\* Calls of sanitizeIdentifier
\* ------------------------------------------------------------------------
\* the length of the short identifiers tried
MaxIdLen == 3

\* a letter of each case, the underscore, a digit and a character outside
\* the pattern
IdChars == {"a", "Z", "_", "7", "-"}

\* every text over IdChars of at most n characters
RECURSIVE TextsUpTo(_)
TextsUpTo(n) ==
  IF n = 0 THEN {<<>>}
  ELSE LET shorter == TextsUpTo(n - 1) IN
       shorter \cup {Append(t, c) : t \in shorter, c \in IdChars}

\* the character c repeated n times
Repeat(c, n) == [i \in 1..n |-> c]

\* identifiers around the maximum length, one of them outside the pattern
LongIdentifiers ==
  {Repeat("x", n) : n \in (MAX_IDENTIFIER_LENGTH - 1)..(MAX_IDENTIFIER_LENGTH + 2)}
    \cup {Repeat("Q", MAX_IDENTIFIER_LENGTH),
          Append(Repeat("x", MAX_IDENTIFIER_LENGTH), "-")}

\* reserved keywords in several casings, and plain names
WordIdentifiers ==
  { <<"s","e","l","e","c","t">>, <<"S","E","L","E","C","T">>,
    <<"S","e","l","e","c","t">>, <<"u","s","e","r">>, <<"U","s","e","r">>,
    <<"t","a","b","l","e">>, <<"o","r","d","e","r","s">>,
    <<"O","r","d","e","r","s">>, <<"b","a","d","-","n","a","m","e">> }

Identifiers == TextsUpTo(MaxIdLen) \cup LongIdentifiers \cup WordIdentifiers

\* a call of sanitizeIdentifier
SanitizeIdentifier(identifier) ==
  /\ LET res == sanitizeIdentifier(identifier) IN
     sanitizing' = [pc |-> "done", identifier |-> identifier,
                    error |-> res.error, quoted |-> res.quoted]
  /\ UNCHANGED <<registryVars, mapVars, limiterVars, clientVars>>

NextSanitize == \E identifier \in Identifiers : SanitizeIdentifier(identifier)

SpecSanitize == Start(RegistryEnv, 0) /\ [][NextSanitize]_vars

\* the texts that match ^[A-Za-z_][A-Za-z0-9_]*$
WellFormedIdentifier(s) ==
  /\ s # <<>>
  /\ s[1] \notin Digits
  /\ \A i \in 1..Len(s) :
       \/ s[i] = "_"
       \/ s[i] \in Digits
       \/ \E k \in 1..26 : s[i] = UpperChars[k] \/ s[i] = LowerChars[k]

\* C21: sanitizeIdentifier returns the identifier between double quotes,
\* its case kept, the same way for reserved and other words, exactly when
\* the identifier matches the pattern and has at most 63 characters;
\* otherwise it fails: with the invalid-identifier error when the pattern
\* does not match, with the too-long error when it matches and is longer.
C21_QuotesExactlyTheValid ==
  sanitizing.pc = "done" =>
    LET id == sanitizing.identifier IN
    /\ sanitizing.error = "none"
         <=> (WellFormedIdentifier(id) /\ Len(id) <= 63)
    /\ sanitizing.error = "none" =>
         /\ Len(sanitizing.quoted) = Len(id) + 2
         /\ sanitizing.quoted[1] = "\""
         /\ sanitizing.quoted[Len(id) + 2] = "\""
         /\ \A i \in 1..Len(id) : sanitizing.quoted[i + 1] = id[i]
    /\ ~WellFormedIdentifier(id) => sanitizing.error = "Invalid identifier"
    /\ (WellFormedIdentifier(id) /\ Len(id) > 63) =>
         sanitizing.error = "Identifier exceeds PostgreSQL's maximum length"

\* a reserved keyword of 63 characters does not exist; the witness is an
\* identifier of the maximum length that was quoted
C21_Witness ==
  /\ sanitizing.pc = "done"
  /\ Len(sanitizing.identifier) = MAX_IDENTIFIER_LENGTH
  /\ sanitizing.error = "none"
  /\ sanitizing.quoted = quote(sanitizing.identifier)

\* ------------------------------------------------------------------------
\* Looking up identifiers that are not registered
\* ------------------------------------------------------------------------
\* requests, the sweep, closeAll and one createConnection invocation,
\* without any assumption on scheduling
SpecLookup == Init /\ [][NextClose]_vars

\* C22: getPool answers an identifier that is not in the registry the same
\* way (a ConnectionError with one fixed message, no pool) whether the
\* identifier was never issued or belonged to a session that the sweep or
\* closeAll has removed: the caller cannot tell the two apart.
C22_AbsentIdsLookAlike ==
  [][\A r \in Requesters, kind \in RequestKinds, id \in RequestIds :
       (Request(r, kind, id) /\ id \notin DOMAIN connections)
         => /\ request'[r].pc = "done"
            /\ request'[r].pool = NoPool
            /\ request'[r].result = "Connection not found or expired"]_vars

\* getPool threw for session 1 after the session was removed; in other
\* states of the same specification the identifier was never issued
C22_Witness ==
  \E r \in Requesters :
    /\ request[r].pc = "done"
    /\ request[r].missing = 1
    /\ request[r].missing < nextId
    /\ request[r].missing \notin DOMAIN connections
    /\ request[r].result = "Connection not found or expired"

\* ------------------------------------------------------------------------
\* gracefulShutdown
\* ------------------------------------------------------------------------
\* gracefulShutdown up to its await: server.close() only stops the listener
\* (it returns at once; requests already received and requests on
\* connections already open go on), then closeAll runs up to its await
gracefulShutdown(k) == closeAll(k)

\* gracefulShutdown after its await: closeAll has resolved and
\* process.exit(0) is called
processExit(k) == CloseAllResumes(k)

\* a request that holds a pool and has not answered yet
InFlight(r) == request[r].pc = "awaiting"

\* C23: graceful shutdown waits for the requests in flight before it closes
\* the pools and exits: no step of the shutdown calls end() on a pool that a
\* request in flight holds, and the process does not exit while a request
\* that holds a pool is in flight.
C23_ShutdownWaitsForRequests ==
  [][\A k \in Closers :
       /\ gracefulShutdown(k) =>
            \A r \in Requesters :
              InFlight(r) => request[r].pool \notin ended' \ ended
       /\ processExit(k) =>
            \A r \in Requesters : ~InFlight(r)]_vars

\* ------------------------------------------------------------------------
\* RateLimiter
\* ------------------------------------------------------------------------
WINDOW_MS == 60000
GENERAL_MAX_REQUESTS == 100
CONNECTION_MAX_REQUESTS == 10

\* the constructor arguments of generalRateLimiter and connectionRateLimiter
windowMs(limiter) == WINDOW_MS

maxRequests(limiter) ==
  IF limiter = "general" THEN GENERAL_MAX_REQUESTS
  ELSE CONNECTION_MAX_REQUESTS

\* Math.ceil(ms / 1000) for ms >= 0
CeilSeconds(ms) == (ms + 999) \div 1000

\* a test that refuses the request that reaches the maximum
ReachedAt(count, max) == count >= max

\* record.count > this.maxRequests
Exceeded(count, max) == count > max

\* the middleware of a limiter on a request of identifier ip at time t: the
\* store afterwards, whether next() is called, and retryAfter of the 429
middleware(limiter, store, ip, t) ==
  IF ip \notin DOMAIN store \/ t > store[ip].resetTime
    THEN [store |-> MapSet(store, ip,
                      [count |-> 1, resetTime |-> t + windowMs(limiter)]),
          next |-> TRUE, retryAfter |-> 0]
  ELSE LET record == [store[ip] EXCEPT !.count = @ + 1] IN
       [store |-> MapSet(store, ip, record),
        next |-> ~Exceeded(record.count, maxRequests(limiter)),
        retryAfter |-> IF Exceeded(record.count, maxRequests(limiter))
                         THEN CeilSeconds(record.resetTime - t) ELSE 0]

\* cleanup: the entries whose window has expired are deleted
cleanup(store, t) ==
  [ip \in {i \in DOMAIN store : ~(t > store[i].resetTime)} |-> store[ip]]

\* the routes: POST /api/connections/test runs the general limiter, then
\* the connection limiter, then the handler; every other route runs the
\* general limiter, then the handler
Routes == {"test", "other"}

Response(ip, route, at, status, by, retryAfter) ==
  [ip |-> ip, route |-> route, at |-> at, status |-> status, by |-> by,
   retryAfter |-> retryAfter]

\* how the chain answers: next() is called up to the handler, or
\* res.status(429)
ReachedHandler == "next()"
TooManyRequests == "429 Too many requests"

\* a request of ip on a route passes through the middleware chain
Receive(ip, route) ==
  LET g == middleware("general", stores["general"], ip, now)
      c == middleware("connection", stores["connection"], ip, now) IN
  /\ IF ~g.next
       THEN /\ stores' = [stores EXCEPT !["general"] = g.store]
            /\ responses' = Append(responses,
                 Response(ip, route, now, TooManyRequests, "general",
                          g.retryAfter))
     ELSE IF route = "test"
       THEN /\ stores' = [stores EXCEPT !["general"] = g.store,
                                        !["connection"] = c.store]
            /\ responses' = Append(responses,
                 IF c.next
                   THEN Response(ip, route, now, ReachedHandler, "none", 0)
                   ELSE Response(ip, route, now, TooManyRequests,
                                 "connection", c.retryAfter))
     ELSE /\ stores' = [stores EXCEPT !["general"] = g.store]
          /\ responses' = Append(responses,
               Response(ip, route, now, ReachedHandler, "none", 0))
  /\ UNCHANGED <<registryVars, mapVars, sanitizing, clientVars>>

\* the cleanup timer of a limiter fires
Cleanup(limiter) ==
  /\ stores' = [stores EXCEPT ![limiter] = cleanup(@, now)]
  /\ UNCHANGED <<registryVars, mapVars, sanitizing, clientVars, responses>>

\* the clock advances by d milliseconds
Elapse(d) ==
  /\ now + d <= StartTime + WINDOW_MS + MaxTicks
  /\ d = 1 => (now + 1 - StartTime) % WINDOW_MS <= MaxTicks
  /\ now' = now + d
  /\ UNCHANGED <<mapVars, outerVars, env, connections, nextId, nextPool,
                 ended, endedAgain, create, request, closer>>

\* ------------------------------------------------------------------------
\* Requests through the rate limiters
\* ------------------------------------------------------------------------
\* the number of requests received after the start
MaxCalls == 3

ClientA == "203.0.113.7"
ClientB == "198.51.100.9"
ClientIPs == {ClientA, ClientB}

\* what ClientA has sent before the start: nothing, one request less than
\* the maximum on the test route, or these and as many on other routes as
\* make one request less than the general maximum.  The first request was
\* received one window before the start and the others a millisecond
\* before the start, all of them within the window the first one opened
Histories ==
  { [test |-> 0, other |-> 0],
    [test |-> CONNECTION_MAX_REQUESTS - 1, other |-> 0],
    [test |-> CONNECTION_MAX_REQUESTS - 1,
     other |-> GENERAL_MAX_REQUESTS - CONNECTION_MAX_REQUESTS] }

EarlierResponses(h) ==
  [i \in 1..(h.test + h.other) |->
     Response(ClientA, IF i <= h.test THEN "test" ELSE "other",
              IF i = 1 THEN StartTime - WINDOW_MS ELSE StartTime - 1,
              ReachedHandler, "none", 0)]

EarlierStores(h) ==
  [l \in {"general", "connection"} |->
     IF h.test = 0 THEN <<>>
     ELSE [ip \in {ClientA} |->
             [count |-> IF l = "general" THEN h.test + h.other ELSE h.test,
              resetTime |-> StartTime]]]

InitLimit ==
  /\ StartServices(RegistryEnv, 0)
  /\ StartClient
  /\ \E h \in Histories :
       /\ stores = EarlierStores(h)
       /\ responses = EarlierResponses(h)

\* the requests received since the start
NewCalls == {i \in DOMAIN responses : responses[i].at >= StartTime}

NextLimit ==
  \/ \E ip \in ClientIPs, route \in Routes :
       Cardinality(NewCalls) < MaxCalls /\ Receive(ip, route)
  \/ \E limiter \in {"general", "connection"} : Cleanup(limiter)
  \/ \E d \in {1, WINDOW_MS} : Elapse(d)

SpecLimit == InitLimit /\ [][NextLimit]_vars

\* the routes a limiter guards
RoutesOf(limiter) == IF limiter = "general" THEN Routes ELSE {"test"}

\* request i reached the handler
Served(i) == responses[i].status = ReachedHandler

\* the requests of the sender of request j, on the routes of the limiter,
\* that reached the handler before request j and less than a minute before
ServedInTheMinuteBefore(j, limiter) ==
  {i \in 1..(j - 1) :
     /\ responses[i].ip = responses[j].ip
     /\ responses[i].route \in RoutesOf(limiter)
     /\ Served(i)
     /\ responses[i].at > responses[j].at - WINDOW_MS}

\* C24: for each client IP no more than maxRequests requests reach the
\* handler within any period of one minute (10 on the test route, 100 on
\* all routes): a request that arrives when maxRequests requests of its
\* sender have reached the handler within the last minute is answered 429.
C24_AtMostMaxInAnyMinute ==
  \A j \in DOMAIN responses, limiter \in {"general", "connection"} :
    ( /\ responses[j].route \in RoutesOf(limiter)
      /\ Cardinality(ServedInTheMinuteBefore(j, limiter))
           >= maxRequests(limiter) )
      => responses[j].status = TooManyRequests

\* request i was handed to the limiter
Reached(i, limiter) ==
  \/ limiter = "general"
  \/ responses[i].route = "test" /\ responses[i].by # "general"

\* the requests of ip that the limiter has counted in the window of the
\* record it holds for ip
InWindow(limiter, ip) ==
  {i \in DOMAIN responses :
     /\ responses[i].ip = ip
     /\ Reached(i, limiter)
     /\ responses[i].at >= stores[limiter][ip].resetTime - WINDOW_MS}

\* C24 (amended): the limiter counts in fixed windows.  A window opens with
\* the first request of an IP after its previous window has ended and lasts
\* windowMs; the limiter counts every request it is handed in the window,
\* lets the first maxRequests of them through and answers 429 to every
\* further one of that window.
C24_AtMostMaxInEachWindow ==
  \A limiter \in {"general", "connection"} :
    \A ip \in DOMAIN stores[limiter] :
      LET window == InWindow(limiter, ip) IN
      /\ stores[limiter][ip].count = Cardinality(window)
      /\ \A j \in window :
           /\ responses[j].at <= stores[limiter][ip].resetTime
           /\ (responses[j].status = TooManyRequests
                 /\ responses[j].by = limiter)
                <=> Cardinality({i \in window : i <= j})
                      > maxRequests(limiter)
           /\ Served(j) => responses[j].by = "none"

\* the eleventh request of a window on the test route was answered 429
C24_Witness ==
  \E j \in NewCalls :
    /\ responses[j].route = "test"
    /\ responses[j].status = TooManyRequests
    /\ responses[j].by = "connection"
    /\ responses[j].ip \in DOMAIN stores["connection"]
    /\ stores["connection"][responses[j].ip].count
         = CONNECTION_MAX_REQUESTS + 1

\* ------------------------------------------------------------------------
\* Pools leaving the registry
\* ------------------------------------------------------------------------
\* C25: no pool leaks from the registry: in every interleaving of
\* createConnection, the sweep and closeAll, a pool leaves the registry only
\* after end() has been called on it; a session that createConnection
\* registers while closeAll awaits is not dropped by clear() with its pool
\* still open.
C25_NoPoolLeavesUnended ==
  [][\A p \in RegisteredPools \ RegisteredPools' : p \in ended']_vars

\* C26: end() is called at most once on each pool, whether by the teardown
\* after a failed probe, by the sweep or by closeAll, also when the sweep
\* timer fires while closeAll awaits and when the shutdown is triggered
\* more than once.
C26_EndCalledAtMostOnce == endedAgain = {}

\* ------------------------------------------------------------------------
\* Sessions growing old
\* ------------------------------------------------------------------------
\* the last time of the runs: a session registered at StartTime + MaxTicks
\* is older than the TTL by then
Horizon == StartTime + MaxTicks + TTL_MS + 1

\* time passes: by a millisecond, or by the TTL
Wait(d) ==
  /\ now + d <= Horizon
  /\ d = 1 => (now + 1 - StartTime) % TTL_MS <= MaxTicks + 1
  /\ now' = now + d
  /\ UNCHANGED <<mapVars, outerVars, env, connections, nextId, nextPool,
                 ended, endedAgain, create, request, closer>>

\* one createConnection invocation whose probe settles early enough for
\* its session to grow old before the last time of the runs, preview
\* requests (three queries each) that use the sessions, the sweep and the
\* clock
NextExpire ==
  \/ \E i \in RegistryDescIds : createConnection(1, i)
  \/ \E ok \in BOOLEAN : ConnectSettles(1, ok)
  \/ \E ok \in BOOLEAN : now <= StartTime + MaxTicks /\ ProbeSettles(1, ok)
  \/ EndSettles(1)
  \/ \E r \in Requesters, id \in RequestIds :
       InOrder(request, r) /\ Request(r, "preview", id)
  \/ \E r \in Requesters, ok \in BOOLEAN : QuerySettles(r, ok)
  \/ cleanupStaleConnections
  \/ \E d \in {1, TTL_MS} : Wait(d)

\* setInterval fires the sweep again and again, and time passes; the
\* registry starts one session below its capacity
FairSweep ==
  /\ Start(RegistryEnv, MAX_CONNECTIONS - 1)
  /\ [][NextExpire]_vars
  /\ WF_vars(cleanupStaleConnections)
  /\ WF_vars(\E d \in {1, TTL_MS} : Wait(d))

\* the identifiers followed: the oldest session, one as old as the TTL at
\* the start, and the one a createConnection call registers during a run
FollowedIds == {1, 2, MAX_CONNECTIONS}

PATH_REGEX(s) ==
  /\ Len(s) >= 1
  /\ \A i \in 1..Len(s) :
       IF i = 1 \/ s[i - 1] = "."
         THEN s[i] \in Letters \cup {"_"}
         ELSE s[i] \in Letters \cup Digits \cup {"_", "."}
  /\ s[Len(s)] # "."

\* what getValidationError returns: null, or a message; `Conflicts with
\* "${other}"` carries the other path
EntryError(message, other) == [message |-> message, other |-> other]

NoEntryError == EntryError("null", <<>>)

\* a test that takes a path that merely starts with the other for its child
conflictsByText(path, other) ==
  StartsWith(other, path) \/ StartsWith(path, other)

\* other.startsWith(path + ".") || path.startsWith(other + ".")
conflicts(path, other) ==
  StartsWith(other, path \o <<".">>) \/ StartsWith(path, other \o <<".">>)

\* getValidationError(entry, index, all), index counted from 1
getValidationError(entry, index, all) ==
  LET path == trim(entry.targetPath)
      duplicates ==
        {i \in 1..Len(all) : i # index /\ trim(all[i].targetPath) = path}
      clashing ==
        {i \in 1..Len(all) :
           /\ i # index
           /\ trim(all[i].targetPath) # <<>>
           /\ conflicts(path, trim(all[i].targetPath))}
  IN
  IF entry.sourceColumn = <<>>
    THEN EntryError("Select a source column", <<>>)
  ELSE IF trim(entry.targetPath) = <<>>
    THEN EntryError("Target path is required", <<>>)
  ELSE IF ~PATH_REGEX(trim(entry.targetPath))
    THEN EntryError("Invalid path (use alphanumeric.dot notation)", <<>>)
  ELSE IF duplicates # {}
    THEN EntryError("Duplicate path", <<>>)
  ELSE IF clashing # {}
    THEN EntryError("Conflicts with",
           trim(all[CHOOSE i \in clashing : \A j \in clashing : i <= j]
                  .targetPath))
  ELSE NoEntryError

\* mapping.map((entry, i) => getValidationError(entry, i, mapping))
rowErrors(mapping) ==
  [i \in 1..Len(mapping) |-> getValidationError(mapping[i], i, mapping)]

\* the MappingEditor renders the mapping m
Render(m) ==
  /\ editor.pc = "idle"
  /\ editor' = [pc |-> "rendered", mapping |-> m, errors |-> rowErrors(m)]
  /\ UNCHANGED <<registryVars, mapVars, sanitizing, limiterVars, wizard>>

\* the mapping on the screen is posted and reaches validateMapping
PostMapping ==
  /\ editor.pc = "rendered"
  /\ Validate(editor.mapping)

\* the entries the mappings on the screen are made of
EditorEntries ==
  << MappingEntry(ColC, <<"a">>),
     MappingEntry(ColD, <<" ","a"," ">>),
     MappingEntry(ColD, <<"a",".","b">>),
     MappingEntry(ColC, <<"a","b">>),
     MappingEntry(ColD, <<"a",".">>),
     MappingEntry(ColC, <<"a",".",".","b">>),
     MappingEntry(ColC, <<".","a">>),
     MappingEntry(ColC, <<"a","-","b">>),
     MappingEntry(<<>>, <<"b">>),
     MappingEntry(ColC, <<" ">>),
     MappingEntry(ColD, <<"_","x",".","y","9">>),
     MappingEntry(ColC, <<"b",".","1">>) >>

\* the mappings of one entry or more
ScreenMappings ==
  {m \in MappingsOf(EditorEntries, MaxEntries) : Len(m) >= 1}

NextAgree ==
  \/ \E m \in ScreenMappings : Render(m)
  \/ PostMapping

SpecAgree == Start(RegistryEnv, 0) /\ [][NextAgree]_vars

\* C28: for every mapping with at least one entry, getValidationError
\* returns null for every entry exactly when validateMapping accepts the
\* mapping (throws nothing)
C28_ClientAndServerAgree ==
  (editor.pc = "rendered" /\ validation.pc = "done") =>
    ((\A i \in 1..Len(editor.mapping) : editor.errors[i] = NoEntryError)
       <=> validation.errors = <<>>)

\* a mapping with a path that starts with another without being its child
\* ("a" and "ab"), passed by both, and one with a parent and its child,
\* refused by both
C28_Witness ==
  /\ editor.pc = "rendered"
  /\ validation.pc = "done"
  /\ validation.mapping = editor.mapping
  /\ Len(editor.mapping) >= 2
  /\ \E i, j \in 1..Len(editor.mapping) :
       /\ editor.mapping[i].targetPath = <<"a">>
       /\ editor.mapping[j].targetPath = <<"a","b">>
  /\ \A i \in 1..Len(editor.mapping) : editor.errors[i] = NoEntryError
  /\ validation.errors = <<>>

\* ------------------------------------------------------------------------
\* The wizard: useWizard, the Stepper and the steps it renders
\* ------------------------------------------------------------------------
\* config/steps: the components of the steps, the first one being step 0
STEPS == <<"ConnectSource", "SelectTable", "MappingEditor", "Preview">>

totalSteps == Len(STEPS)

\* the step (counted from 0) that renders the component
StepOf(component) == (CHOOSE i \in 1..Len(STEPS) : STEPS[i] = component) - 1

\* what STEPS[step].render puts on the screen: SelectTable needs a
\* connection id, Preview a connection id and a table
Rendered(w, component) ==
  /\ w.step = StepOf(component)
  /\ component = "SelectTable" => w.connectionId # "null"
  /\ component = "Preview" =>
       w.connectionId # "null" /\ w.selectedTable # "null"

\* markCompleted and unmarkCompleted
markCompleted(completedSteps, s) == completedSteps \cup {s}
unmarkCompleted(completedSteps, s) == completedSteps \ {s}

\* next.length > 0 && next.every((e, i) => getValidationError(e, i, next)
\* === null)
isMappingValid(mapping) ==
  /\ Len(mapping) > 0
  /\ \A i \in 1..Len(mapping) :
       getValidationError(mapping[i], i, mapping) = NoEntryError

\* canGoNext
canGoNext(w) ==
  CASE w.step = 0 -> w.connectionId # "null"
    [] w.step = 1 -> w.selectedTable # "null"
    [] w.step = 2 -> isMappingValid(w.mapping)
    [] OTHER -> FALSE

\* Math.max(...completedSteps, 0)
MaxCompleted(completedSteps) ==
  CHOOSE m \in completedSteps \cup {0} :
    \A s \in completedSteps \cup {0} : s <= m

\* Stepper: isClickable of the button of step i
isClickable(w, i) ==
  \/ i = w.step
  \/ i \in w.completedSteps
  \/ i <= MaxCompleted(w.completedSteps)

\* the wizard changes and nothing else does
WizardOnly ==
  UNCHANGED <<registryVars, mapVars, sanitizing, limiterVars, editor>>

\* ConnectSource reports the session the server registered
handleConnected(id) ==
  /\ Rendered(wizard, "ConnectSource")
  /\ wizard' = [wizard EXCEPT
       !.connectionId = id,
       !.completedSteps = markCompleted(@, 0)]
  /\ WizardOnly

\* SelectTable reports the table picked and its columns
handleTableSelected(table, cols) ==
  /\ Rendered(wizard, "SelectTable")
  /\ wizard' = [wizard EXCEPT
       !.selectedTable = table,
       !.columns = cols,
       !.completedSteps = markCompleted(@, 1)]
  /\ WizardOnly

\* handleMappingChange(next), called by the MappingEditor
handleMappingChange(next) ==
  /\ Rendered(wizard, "MappingEditor")
  /\ wizard' = [wizard EXCEPT
       !.mapping = next,
       !.completedSteps =
         IF isMappingValid(next) THEN markCompleted(@, 2)
         ELSE unmarkCompleted(@, 2)]
  /\ WizardOnly

\* Preview reports that the webhook was sent
handleWebhookSent ==
  /\ Rendered(wizard, "Preview")
  /\ wizard' = [wizard EXCEPT !.completedSteps = markCompleted(@, 3)]
  /\ WizardOnly

\* goNext: the Next button
goNext ==
  /\ canGoNext(wizard) /\ wizard.step < totalSteps - 1
  /\ wizard' = [wizard EXCEPT !.step = @ + 1]
  /\ WizardOnly

\* goBack: the Back button
goBack ==
  /\ wizard.step > 0
  /\ wizard' = [wizard EXCEPT !.step = @ - 1]
  /\ WizardOnly

\* goTo, called by the Stepper for a button that is not disabled
goTo(i) ==
  /\ isClickable(wizard, i)
  /\ wizard' = [wizard EXCEPT !.step = i]
  /\ WizardOnly

\* useMappingEditor: the mappings its buttons and fields hand to
\* onMappingChange
update(mapping, index, field, value) ==
  [mapping EXCEPT ![index] = [@ EXCEPT ![field] = value]]

addRow(mapping) == Append(mapping, MappingEntry(<<>>, <<>>))

removeRow(mapping, index) ==
  [i \in 1..(Len(mapping) - 1) |->
     IF i < index THEN mapping[i] ELSE mapping[i + 1]]

autoMap(columns) ==
  [i \in 1..Len(columns) |-> MappingEntry(columns[i], columns[i])]

\* the session, the table and the texts typed into the path fields
WizardSession == "session-1"
WizardTable == "users"
WizardColumns == <<ColC, ColD>>
TypedPaths == {<<>>, <<"a">>, <<"a",".","b">>}

\* the mappings one use of the MappingEditor can produce from the mapping
\* on the screen
Edits(w) ==
  {autoMap(w.columns)}
  \cup {addRow(w.mapping) : k \in {1} \cap 1..(MaxEntries - Len(w.mapping))}
  \cup {removeRow(w.mapping, i) : i \in 1..Len(w.mapping)}
  \cup {update(w.mapping, i, "targetPath", v) :
          i \in 1..Len(w.mapping), v \in TypedPaths}
  \cup {update(w.mapping, i, "sourceColumn", v) :
          i \in 1..Len(w.mapping),
          v \in {<<>>} \cup {w.columns[k] : k \in 1..Len(w.columns)}}

NextWizard ==
  \/ handleConnected(WizardSession)
  \/ handleTableSelected(WizardTable, WizardColumns)
  \/ \E next \in Edits(wizard) : handleMappingChange(next)
  \/ handleWebhookSent
  \/ goNext
  \/ goBack
  \/ \E i \in 0..(totalSteps - 1) : goTo(i)

SpecWizard == Start(RegistryEnv, 0) /\ [][NextWizard]_vars

\* C29: whatever the sequence of goNext, goBack, clicks on the Stepper,
\* mapping edits and webhook sends, the current step is the Preview step
\* only while the mapping is non-empty, every entry passes
\* getValidationError, a connection id is set and a table is selected
C29_PreviewOnlyWithValidMapping ==
  wizard.step = StepOf("Preview") =>
    /\ isMappingValid(wizard.mapping)
    /\ wizard.connectionId # "null"
    /\ wizard.selectedTable # "null"

\* ------------------------------------------------------------------------
\* The probe client of createConnection
\* ------------------------------------------------------------------------
\* C30: a createConnection call that acquired the probe client has
\* released it on every exit path before it returns or throws, and on a
\* failed probe before it calls end() on its pool
C30_ProbeClientReleased ==
  \A c \in Creators :
    /\ create[c].pc \in {"ending", "done"} => create[c].client # "held"
    /\ create[c].pool \in ended => create[c].client # "held"
    /\ create[c].client = "held" => create[c].pc = "probing"

\* one call whose probe succeeded and one whose probe failed, both
\* finished with the client released, the pool of the second ended
C30_Witness ==
  \E c, f \in Creators :
    /\ create[c].pc = "done" /\ create[c].result = "ok"
    /\ create[c].client = "released"
    /\ create[f].pc = "done" /\ create[f].result = "ConnectionError"
    /\ create[f].client = "released"
    /\ create[f].pool \in ended

====
